---- MODULE Spec2Model ----
(***************************************************************************)
(* Freemium tier-entitlement, rate-limiting and request-gate layer of the  *)
(* mentorship module (backend/mentorship: config.py, freemium_service.py,  *)
(* middleware.py).                                                         *)
(*                                                                         *)
(* The specifications share the variables below:                           *)
(*   SpecService    FreemiumService, and the entitlement step of the gate  *)
(*                  that calls it, on record stores drawn from a bounded   *)
(*                  set (the service only reads the record store);         *)
(*   SpecRate       FreemiumMiddleware._apply_rate_limiting run request    *)
(*                  after request against the counter store, with a clock; *)
(*   SpecUnlimited  the service and the rate limiter on usage far above    *)
(*                  every limit;                                           *)
(*   SpecGate       the before_request / handler / after_request cycle;    *)
(*   SpecAdvice     validate_tier_limits and get_upgrade_recommendations   *)
(*                  on usage around 80% and 100% of the limits;            *)
(*   SpecGuards     the catalog built from the environment and the         *)
(*                  require_tier / require_feature decorators;             *)
(*   SpecWorkers    concurrent workers inside _check_rate_limit;           *)
(*   SpecCatalog    can_perform_action under a catalog with one limit      *)
(*                  overridden by the environment;                         *)
(*   SpecExpiry     the workers of SpecWorkers with a counter store that   *)
(*                  may fail on EXPIRE, under fair scheduling.             *)
(*                                                                         *)
(* Storage sizes are counted in MiB (2^20 bytes): the catalog's byte       *)
(* limits (1 GiB, 10 GiB) are multiples of it and 10 GiB does not fit the  *)
(* model checker's 32-bit integers.                                        *)
(***************************************************************************)
EXTENDS Integers, Sequences, FiniteSets, TLC

VARIABLES
    db,       \* record store: users (id -> stored tier) and owned entity counts
    svc,      \* SpecService: the last FreemiumService call and its outcome
    redis,    \* counter store: rate-limit key -> [n, volatile, exp]
    now,      \* wall clock, in seconds
    t0,       \* the clock's value in the initial state
    acct,     \* SpecRate: the tier string passed to _apply_rate_limiting
    nreq,     \* SpecRate: requests issued in the current minute bucket (history)
    faults,   \* number of counter-store / record-store faults injected so far
    rl,       \* SpecRate: the last _apply_rate_limiting call and its outcome
    events,   \* counter store: usage_metrics key -> [items, volatile, exp]
    req,      \* SpecGate: the request in flight and how far it got
    g,        \* SpecGate: flask.g of the request in flight
    resp,     \* SpecGate: the response of the request in flight
    environ,  \* os.environ: the MENTORSHIP_* settings present at start
    catalog,  \* MentorshipConfig.TIER_LIMITS as built from environ
    CURRENT_TIER,  \* MentorshipConfig.CURRENT_TIER, the process-wide tier
    procs,    \* SpecWorkers: each worker's position in _check_rate_limit
    ttl_sets, \* SpecWorkers: key -> EXPIRE commands applied to it (history)
    incr_log  \* SpecWorkers: key -> the counts INCR returned for it (history)

vars == <<db, svc, redis, now, t0, acct, nreq, faults, rl, events, req, g, resp,
          environ, catalog, CURRENT_TIER, procs, ttl_sets, incr_log>>

\* the variables only SpecGuards, SpecWorkers and SpecCatalog set or change
aux == <<environ, catalog, CURRENT_TIER, procs, ttl_sets, incr_log>>

(***************************************************************************)
(* Bounds of the model.                                                    *)
(***************************************************************************)
\* how many entity classes of a drawn record store hold something
MaxVaried == 2
\* a usage far above every limit of the catalog
Huge == 1000000
\* requests issued beyond a per-minute limit, and per later minute bucket
MaxOver == 2
\* store commands that fail in one behaviour
MaxFaults == 1
\* seconds by which the clock advances in one step
TickStep == 30
\* seconds the clock advances in one behaviour
MaxElapsed == 90

(***************************************************************************)
(* Python outcomes: a call returns a value or raises.                      *)
(***************************************************************************)
Return(v) == [kind |-> "return", value |-> v]

Raise(e) == [kind |-> "raise", exc |-> e]

\* Python's None
None == [none |-> TRUE]

(***************************************************************************)
(* config.py: the tier catalog, with the default of every limit that an    *)
(* environment setting may override.                                       *)
(***************************************************************************)
MentorshipTier == {"free", "premium", "enterprise"}

TIER_LIMITS ==
    [free |->
        [interns |-> 5, cases |-> 10, resources |-> 20, sessions |-> 5,
         storage_bytes |-> 1024, ai_requests_per_month |-> 50,
         video_sessions_per_month |-> 2, custom_competencies |-> 0,
         export_reports |-> FALSE, priority_support |-> FALSE,
         advanced_analytics |-> FALSE, white_label |-> FALSE],
     premium |->
        [interns |-> 50, cases |-> 100, resources |-> -1, sessions |-> 50,
         storage_bytes |-> 10240, ai_requests_per_month |-> 500,
         video_sessions_per_month |-> 20, custom_competencies |-> 50,
         export_reports |-> TRUE, priority_support |-> TRUE,
         advanced_analytics |-> TRUE, white_label |-> FALSE],
     enterprise |->
        [interns |-> -1, cases |-> -1, resources |-> -1, sessions |-> -1,
         storage_bytes |-> -1, ai_requests_per_month |-> -1,
         video_sessions_per_month |-> -1, custom_competencies |-> -1,
         export_reports |-> TRUE, priority_support |-> TRUE,
         advanced_analytics |-> TRUE, white_label |-> TRUE]]

(***************************************************************************)
(* The record store.  One account row may exist ("u1"); "ghost" is an id   *)
(* with no row.  user.tier may be NULL ("none"): the code reads it as      *)
(* `user.tier or 'free'`.  Owned entities are counted per class:           *)
(*   *_recent   created within the last 30 days                            *)
(*   *_old      created earlier                                            *)
(*   sessions_month   scheduled since the first day of the current month   *)
(*   sessions_window  scheduled within the last 30 days                    *)
(*   storage          sum of EducationalResource.file_size                 *)
(*   custom_competencies  competencies with is_custom                      *)
(***************************************************************************)
UserIds == {"u1", "ghost"}

StoredTiers == MentorshipTier \cup {"none"}

Classes ==
    {"interns_recent", "interns_old", "cases_recent", "cases_old",
     "resources_recent", "resources_old", "sessions_month", "sessions_window",
     "storage", "custom_competencies"}

NoEntities == [c \in Classes |-> 0]

\* MentorshipTier(user.tier or 'free')
TierOrFree(t) == IF t = "none" THEN "free" ELSE t

\* the counts of the entities whose owner column equals user_id
OwnedBy(d, user_id) ==
    IF user_id \in DOMAIN d.owned THEN d.owned[user_id] ELSE NoEntities

(***************************************************************************)
(* freemium_service.py                                                     *)
(***************************************************************************)
\* the mutant of get_user_usage_metrics whose entity queries return every
\* row twice
get_user_usage_metrics_RowsTwice(d, user_id, dbOk) ==
    IF ~dbOk THEN Raise("StorageError")
    ELSE IF user_id \notin DOMAIN d.users THEN Raise("ValueError")
    ELSE LET o == OwnedBy(d, user_id) IN
        Return([user_id |-> user_id,
                tier |-> TierOrFree(d.users[user_id]),
                interns_count |-> 2 * o.interns_recent,
                cases_count |-> 2 * o.cases_recent,
                resources_count |-> 2 * o.resources_recent,
                sessions_count |-> 2 * o.sessions_window,
                storage_used_bytes |-> o.storage,
                ai_requests_count |-> 0,
                video_sessions_count |-> 0,
                custom_competencies_count |-> 2 * o.custom_competencies])

\* FreemiumService.get_user_usage_metrics (period_days = 30)
get_user_usage_metrics(d, user_id, dbOk) ==
    IF ~dbOk THEN Raise("StorageError")
    ELSE IF user_id \notin DOMAIN d.users THEN Raise("ValueError")
    ELSE LET o == OwnedBy(d, user_id) IN
        Return([user_id |-> user_id,
                tier |-> TierOrFree(d.users[user_id]),
                interns_count |-> o.interns_recent,
                cases_count |-> o.cases_recent,
                resources_count |-> o.resources_recent,
                sessions_count |-> o.sessions_window,
                storage_used_bytes |-> o.storage,
                ai_requests_count |-> 0,
                video_sessions_count |-> 0,
                custom_competencies_count |-> o.custom_competencies])

\* the keys of current_usage / tier_limits, in dict order
LimitNames ==
    <<"interns", "cases", "resources", "sessions", "storage_bytes",
      "custom_competencies">>

\* current_value >= limit_value * 0.8
NearLimit(current_value, limit_value) == 5 * current_value >= 4 * limit_value

\* the mutant of IsExceeded that forgets the unlimited sentinel
IsExceeded_NoSentinel(limit_value, current_value) ==
    current_value >= limit_value

\* the mutant of IsExceeded that takes a limit of 0 for "no limit"
IsExceeded_ZeroUnlimited(limit_value, current_value) ==
    limit_value > 0 /\ current_value >= limit_value

\* the mutant of IsExceeded that needs some usage before a limit is exceeded
IsExceeded_NeedsUsage(limit_value, current_value) ==
    limit_value /= -1 /\ current_value >= limit_value /\ current_value > 0

\* the mutant of IsExceeded that denies only above the limit
IsExceeded_Strict(limit_value, current_value) ==
    limit_value /= -1 /\ current_value > limit_value

\* `limit != -1 and current >= limit`: the test of validate_tier_limits and of
\* every count branch of can_perform_action
IsExceeded(limit_value, current_value) ==
    limit_value /= -1 /\ current_value >= limit_value

\* FreemiumService.validate_tier_limits
validate_tier_limits(d, user_id, dbOk) ==
    IF ~dbOk THEN Raise("StorageError")
    ELSE IF user_id \notin DOMAIN d.users THEN Raise("ValueError")
    ELSE LET
        limits == TIER_LIMITS[TierOrFree(d.users[user_id])]
        metrics == get_user_usage_metrics(d, user_id, dbOk).value
        current_usage ==
            [interns |-> metrics.interns_count,
             cases |-> metrics.cases_count,
             resources |-> metrics.resources_count,
             sessions |-> metrics.sessions_count,
             storage_bytes |-> metrics.storage_used_bytes,
             custom_competencies |-> metrics.custom_competencies_count]
        tier_limits ==
            [interns |-> limits.interns,
             cases |-> limits.cases,
             resources |-> limits.resources,
             sessions |-> limits.sessions,
             storage_bytes |-> limits.storage_bytes,
             custom_competencies |-> limits.custom_competencies]
        Exceeded(n) == IsExceeded(tier_limits[n], current_usage[n])
        exceeded_limits == SelectSeq(LimitNames, Exceeded)
        Nearing(n) ==
            /\ tier_limits[n] /= -1
            /\ NearLimit(current_usage[n], tier_limits[n])
            /\ ~Exceeded(n)
        nearing == SelectSeq(LimitNames, Nearing)
        recommendations ==
            [i \in 1..Len(exceeded_limits) |->
                [about |-> exceeded_limits[i],
                 text |-> IF exceeded_limits[i] = "storage_bytes"
                          THEN "storage_exceeded" ELSE "limit_reached"]]
            \o [i \in 1..Len(nearing) |->
                [about |-> nearing[i], text |-> "nearing_limit"]]
      IN
        Return([is_valid |-> Len(exceeded_limits) = 0,
                current_usage |-> current_usage,
                limits |-> tier_limits,
                exceeded_limits |-> exceeded_limits,
                recommendations |-> recommendations,
                upgrade_required |-> Len(exceeded_limits) > 0])

\* the actions can_perform_action knows; anything else falls through
KnownActions ==
    {"create_intern", "create_case", "upload_resource", "schedule_session",
     "create_custom_competency", "export_report", "use_ai"}

Denied(why, current_count, limit) ==
    Return(<<FALSE, [why |-> why, count |-> current_count, limit |-> limit]>>)

Permitted == Return(<<TRUE, [why |-> "permitted", count |-> 0, limit |-> 0]>>)

\* the mutant of StorageExceeded that looks at the uploaded file alone
StorageExceeded_FileOnly(limit, current_storage, file_size) ==
    limit /= -1 /\ file_size > limit

\* `limits.storage_bytes != -1 and
\*  (current_storage + file_size) > limits.storage_bytes`
StorageExceeded(limit, current_storage, file_size) ==
    limit /= -1 /\ (current_storage + file_size) > limit

\* the mutant of AiUnavailable that reads every allowance but a positive one
\* as "no assistance"
AiUnavailable_NotPositive(ai_requests_per_month) ==
    ai_requests_per_month <= 0

\* `limits.ai_requests_per_month == 0`
AiUnavailable(ai_requests_per_month) == ai_requests_per_month = 0

\* FreemiumService.can_perform_action with self.config.TIER_LIMITS = config;
\* file_size is kwargs.get('file_size', 0)
can_perform_action_on(config, d, user_id, action, file_size, dbOk) ==
    IF ~dbOk THEN Raise("StorageError")
    ELSE IF user_id \notin DOMAIN d.users THEN Denied("user_not_found", 0, 0)
    ELSE LET
        limits == config[TierOrFree(d.users[user_id])]
        o == OwnedBy(d, user_id)
      IN
        CASE action = "create_intern" ->
            LET current_count == o.interns_recent + o.interns_old IN
            IF IsExceeded(limits.interns, current_count)
            THEN Denied("interns", current_count, limits.interns)
            ELSE Permitted
        [] action = "create_case" ->
            LET current_count == o.cases_recent + o.cases_old IN
            IF IsExceeded(limits.cases, current_count)
            THEN Denied("cases", current_count, limits.cases)
            ELSE Permitted
        [] action = "upload_resource" ->
            LET current_count == o.resources_recent + o.resources_old
                current_storage == o.storage
            IN
            IF IsExceeded(limits.resources, current_count)
            THEN Denied("resources", current_count, limits.resources)
            ELSE IF StorageExceeded(limits.storage_bytes, current_storage,
                                    file_size)
            THEN Denied("storage", current_storage, limits.storage_bytes)
            ELSE Permitted
        [] action = "schedule_session" ->
            LET current_count == o.sessions_month IN
            IF IsExceeded(limits.sessions, current_count)
            THEN Denied("sessions", current_count, limits.sessions)
            ELSE Permitted
        [] action = "create_custom_competency" ->
            LET current_count == o.custom_competencies IN
            IF IsExceeded(limits.custom_competencies, current_count)
            THEN Denied("custom_competencies", current_count,
                        limits.custom_competencies)
            ELSE Permitted
        [] action = "export_report" ->
            IF ~limits.export_reports
            THEN Denied("export_reports", 0, 0)
            ELSE Permitted
        [] action = "use_ai" ->
            IF AiUnavailable(limits.ai_requests_per_month)
            THEN Denied("ai", 0, 0)
            ELSE Permitted
        [] OTHER -> Permitted

\* FreemiumService.can_perform_action with the catalog no setting overrides
can_perform_action(d, user_id, action, file_size, dbOk) ==
    can_perform_action_on(TIER_LIMITS, d, user_id, action, file_size, dbOk)

\* config.py TIER_PRICING, in centavos
TIER_PRICING ==
    [free |-> [monthly_price |-> 0, yearly_price |-> 0, currency |-> "BRL"],
     premium |-> [monthly_price |-> 9990, yearly_price |-> 99900,
                  currency |-> "BRL"],
     enterprise |-> [monthly_price |-> 29990, yearly_price |-> 299900,
                     currency |-> "BRL"]]

\* min(100, (current_value / limit_value) * 100), rounded down; the division
\* is Python's and raises when limit_value is 0, so limit_value > 0 here
UsagePercentage(current_value, limit_value) ==
    LET percentage == (100 * current_value) \div limit_value
    IN IF percentage > 100 THEN 100 ELSE percentage

\* `p > 80` for p = min(100, (current_value / limit_value) * 100)
Over80(current_value, limit_value) ==
    limit_value /= -1 /\ 5 * current_value > 4 * limit_value

\* the test of the FREE branch of get_upgrade_recommendations
FreeSuggests(upgrade_required, any_over_80) ==
    upgrade_required \/ any_over_80

\* the test of the PREMIUM branch of get_upgrade_recommendations
PremiumSuggests(upgrade_required, any_over_80) == upgrade_required

\* the mutant of RecommendedTier that suggests the account's own tier
RecommendedTier_Same(current_tier, upgrade_required, any_over_80) ==
    current_tier

\* recommendations['suggested_tier'] of get_upgrade_recommendations
RecommendedTier(current_tier, upgrade_required, any_over_80) ==
    CASE current_tier = "free"
             /\ FreeSuggests(upgrade_required, any_over_80) -> "premium"
      [] current_tier = "premium"
             /\ PremiumSuggests(upgrade_required, any_over_80) -> "enterprise"
      [] OTHER -> "None"

\* FreemiumService.get_upgrade_recommendations
get_upgrade_recommendations(d, user_id, dbOk) ==
    LET validation == validate_tier_limits(d, user_id, dbOk) IN
    IF validation.kind = "raise" THEN validation
    ELSE LET
        v == validation.value
        metrics == get_user_usage_metrics(d, user_id, dbOk).value
        current_tier == metrics.tier
        names == {LimitNames[i] : i \in 1..Len(LimitNames)}
      IN
        IF \E n \in names : v.limits[n] = 0
        THEN Raise("ZeroDivisionError")
        ELSE LET
            usage_percentage ==
                [n \in names |->
                    IF v.limits[n] /= -1
                    THEN UsagePercentage(v.current_usage[n], v.limits[n])
                    ELSE 0]
            any_over_80 ==
                \E n \in names : Over80(v.current_usage[n], v.limits[n])
            suggested_tier ==
                RecommendedTier(current_tier, v.upgrade_required, any_over_80)
          IN
            Return([current_tier |-> current_tier,
                    needs_upgrade |-> v.upgrade_required,
                    exceeded_limits |-> v.exceeded_limits,
                    usage_percentage |-> usage_percentage,
                    suggested_tier |-> suggested_tier,
                    benefits |-> IF suggested_tier = "None" THEN "none"
                                 ELSE suggested_tier,
                    pricing |-> IF suggested_tier = "None" THEN <<>>
                                ELSE TIER_PRICING[suggested_tier]])

(***************************************************************************)
(* The counter store (Redis).  A key holds a counter n or a list `items`;   *)
(* `volatile` says that EXPIRE was applied to it and `exp` is then the     *)
(* time it disappears.  INCR creates an absent key with n = 1 and no       *)
(* expiry.  A command may fail (connection error, timeout): it then        *)
(* raises and changes nothing.                                             *)
(***************************************************************************)
\* the mutant of redis_incr that writes back a count read earlier: a hit on
\* an existing key above 1 is lost
redis_incr_Lossy(r, key) ==
    IF key \in DOMAIN r
    THEN [r EXCEPT ![key].n = IF @ >= 2 THEN @ ELSE @ + 1]
    ELSE [k \in DOMAIN r \cup {key} |->
             IF k = key THEN [n |-> 1, volatile |-> FALSE, exp |-> 0]
             ELSE r[k]]

\* INCR: atomic in the store
redis_incr(r, key) ==
    IF key \in DOMAIN r
    THEN [r EXCEPT ![key].n = @ + 1]
    ELSE [k \in DOMAIN r \cup {key} |->
             IF k = key THEN [n |-> 1, volatile |-> FALSE, exp |-> 0]
             ELSE r[k]]

redis_expire(r, key, ttl, t) ==
    IF key \in DOMAIN r
    THEN [r EXCEPT ![key].volatile = TRUE, ![key].exp = t + ttl]
    ELSE r

\* LPUSH: the value goes to the head of the list, created when absent
redis_lpush(r, key, value) ==
    IF key \in DOMAIN r
    THEN [r EXCEPT ![key].items = <<value>> \o @]
    ELSE [k \in DOMAIN r \cup {key} |->
             IF k = key
             THEN [items |-> <<value>>, volatile |-> FALSE, exp |-> 0]
             ELSE r[k]]

\* the store at time t: the keys whose expiry has passed are gone
redis_at(r, t) ==
    [k \in {x \in DOMAIN r : ~r[x].volatile \/ r[x].exp > t} |-> r[k]]

(***************************************************************************)
(* middleware.py: the rate limiter.                                        *)
(***************************************************************************)
\* rate_limits of _apply_rate_limiting
rate_limits ==
    [free |-> [requests_per_minute |-> 30, requests_per_hour |-> 500,
               requests_per_day |-> 2000],
     premium |-> [requests_per_minute |-> 100, requests_per_hour |-> 2000,
                  requests_per_day |-> 10000],
     enterprise |-> [requests_per_minute |-> -1, requests_per_hour |-> -1,
                     requests_per_day |-> -1]]

\* the periods in the order `limits.items()` yields them
Periods == <<"requests_per_minute", "requests_per_hour", "requests_per_day">>

\* ttl of _check_rate_limit: the width of the period's window, in seconds
WindowTTL(period) ==
    CASE period = "requests_per_minute" -> 60
      [] period = "requests_per_hour" -> 3600
      [] period = "requests_per_day" -> 86400

\* window_key of _check_rate_limit: the user, the granularity and the window
\* start formatted to the granularity (here: the window's start time)
WindowKey(user_id, period, t) ==
    <<user_id, period, (t \div WindowTTL(period)) * WindowTTL(period)>>

\* what the counter store does during one _check_rate_limit
StoreFaults == {"none", "incr", "expire"}

\* the mutant of _check_rate_limit that fails closed
_check_rate_limit_FailClosed(r, user_id, period, limit, t, fault) ==
    LET key == WindowKey(user_id, period, t)
        r1 == redis_incr(r, key)
        current_count == r1[key].n
    IN
    IF fault = "incr"
    THEN [redis |-> r, ok |-> FALSE, ops |-> <<<<"incr", period>>>>,
          faulted |-> TRUE]
    ELSE IF current_count = 1 /\ fault = "expire"
    THEN [redis |-> r1, ok |-> FALSE,
          ops |-> <<<<"incr", period>>, <<"expire", period>>>>,
          faulted |-> TRUE]
    ELSE IF current_count = 1
    THEN [redis |-> redis_expire(r1, key, WindowTTL(period), t),
          ok |-> current_count <= limit,
          ops |-> <<<<"incr", period>>, <<"expire", period>>>>,
          faulted |-> FALSE]
    ELSE [redis |-> r1, ok |-> current_count <= limit,
          ops |-> <<<<"incr", period>>>>, faulted |-> FALSE]

\* the mutant of _check_rate_limit that admits up to and including limit + 1
_check_rate_limit_OffByOne(r, user_id, period, limit, t, fault) ==
    LET key == WindowKey(user_id, period, t)
        r1 == redis_incr(r, key)
        current_count == r1[key].n
    IN
    IF fault = "incr"
    THEN [redis |-> r, ok |-> TRUE, ops |-> <<<<"incr", period>>>>,
          faulted |-> TRUE]
    ELSE IF current_count = 1 /\ fault = "expire"
    THEN [redis |-> r1, ok |-> TRUE,
          ops |-> <<<<"incr", period>>, <<"expire", period>>>>,
          faulted |-> TRUE]
    ELSE IF current_count = 1
    THEN [redis |-> redis_expire(r1, key, WindowTTL(period), t),
          ok |-> current_count <= limit + 1,
          ops |-> <<<<"incr", period>>, <<"expire", period>>>>,
          faulted |-> FALSE]
    ELSE [redis |-> r1, ok |-> current_count <= limit + 1,
          ops |-> <<<<"incr", period>>>>, faulted |-> FALSE]

\* the mutant of _check_rate_limit that leaves a full bucket as it found it
_check_rate_limit_PeekWhenFull(r, user_id, period, limit, t, fault) ==
    LET key == WindowKey(user_id, period, t)
        r1 == redis_incr(r, key)
        current_count == r1[key].n
    IN
    IF fault = "incr"
    THEN [redis |-> r, ok |-> TRUE, ops |-> <<<<"incr", period>>>>,
          faulted |-> TRUE]
    ELSE IF current_count = 1 /\ fault = "expire"
    THEN [redis |-> r1, ok |-> TRUE,
          ops |-> <<<<"incr", period>>, <<"expire", period>>>>,
          faulted |-> TRUE]
    ELSE IF current_count = 1
    THEN [redis |-> redis_expire(r1, key, WindowTTL(period), t),
          ok |-> current_count <= limit,
          ops |-> <<<<"incr", period>>, <<"expire", period>>>>,
          faulted |-> FALSE]
    ELSE [redis |-> IF current_count <= limit THEN r1 ELSE r,
          ok |-> current_count <= limit,
          ops |-> <<<<"incr", period>>>>, faulted |-> FALSE]

\* FreemiumMiddleware._check_rate_limit at time t.  `ops` lists the store
\* commands it issued and `faulted` says that one of them raised.
_check_rate_limit(r, user_id, period, limit, t, fault) ==
    LET key == WindowKey(user_id, period, t)
        r1 == redis_incr(r, key)
        current_count == r1[key].n
    IN
    IF fault = "incr"
    THEN [redis |-> r, ok |-> TRUE, ops |-> <<<<"incr", period>>>>,
          faulted |-> TRUE]
    ELSE IF current_count = 1 /\ fault = "expire"
    THEN [redis |-> r1, ok |-> TRUE,
          ops |-> <<<<"incr", period>>, <<"expire", period>>>>,
          faulted |-> TRUE]
    ELSE IF current_count = 1
    THEN [redis |-> redis_expire(r1, key, WindowTTL(period), t),
          ok |-> current_count <= limit,
          ops |-> <<<<"incr", period>>, <<"expire", period>>>>,
          faulted |-> FALSE]
    ELSE [redis |-> r1, ok |-> current_count <= limit,
          ops |-> <<<<"incr", period>>>>, faulted |-> FALSE]

\* FreemiumMiddleware._get_retry_after
_get_retry_after(period) ==
    CASE period = "requests_per_minute" -> 60
      [] period = "requests_per_hour" -> 3600
      [] period = "requests_per_day" -> 86400
      [] OTHER -> 60

\* the mutant of SkipPeriod that counts unlimited periods too
SkipPeriod_Never(limit) == FALSE

\* `if limit == -1: continue`
SkipPeriod(limit) == limit = -1

\* the loop of _apply_rate_limiting from the i-th period on
RECURSIVE RateLoop(_, _, _, _, _, _, _, _)
RateLoop(i, r, user_id, limits, t, plan, ops, failed) ==
    IF i > Len(Periods)
    THEN [redis |-> r, result |-> [allowed |-> TRUE], ops |-> ops,
          failed |-> failed]
    ELSE LET period == Periods[i]
             limit == limits[period]
         IN
         IF SkipPeriod(limit)
         THEN RateLoop(i + 1, r, user_id, limits, t, plan, ops, failed)
         ELSE LET c == _check_rate_limit(r, user_id, period, limit, t,
                                         plan[period])
                  failed1 == IF c.faulted THEN failed \cup {period}
                             ELSE failed
              IN
              IF ~c.ok
              THEN [redis |-> c.redis,
                    result |-> [allowed |-> FALSE, message |-> period,
                                retry_after |-> _get_retry_after(period)],
                    ops |-> ops \o c.ops,
                    failed |-> failed1]
              ELSE RateLoop(i + 1, c.redis, user_id, limits, t, plan,
                            ops \o c.ops, failed1)

\* FreemiumMiddleware._apply_rate_limiting at time t; plan says, per period,
\* what the counter store does during that period's check.  `ops` lists the
\* store commands issued, `failed` the periods whose check caught an error.
_apply_rate_limiting(r, user_id, tier, t, plan) ==
    RateLoop(1, r, user_id, rate_limits[tier], t, plan, <<>>, {})

(***************************************************************************)
(* middleware.py: the request gate.  A request carries its method, its     *)
(* path (a sequence of pieces, so that str.startswith is a prefix test),   *)
(* the identity its JWT resolves to ("invalid" when verification raises)   *)
(* and the sizes of the uploaded files.  flask.g is a map from attribute   *)
(* names to values, empty when the request starts.                         *)
(***************************************************************************)
public_routes ==
    {<<"/api/auth/login">>, <<"/api/auth/register">>, <<"/api/auth/refresh">>,
     <<"/api/health">>, <<"/api/metrics">>, <<"/api/tiers/comparison">>}

StartsWith(path, route) ==
    Len(path) >= Len(route) /\ SubSeq(path, 1, Len(route)) = route

\* the mutant of _is_public_route that knows the auth routes only
_is_public_route_AuthOnly(request) ==
    \E route \in {<<"/api/auth/login">>, <<"/api/auth/register">>,
                  <<"/api/auth/refresh">>} : StartsWith(request.path, route)

\* FreemiumMiddleware._is_public_route
_is_public_route(request) ==
    \E route \in public_routes : StartsWith(request.path, route)

\* action_mapping of _validate_action_limits
action_mapping ==
    <<"POST", <<"/api/mentorship/interns">>>> :> "create_intern"
    @@ <<"POST", <<"/api/mentorship/cases">>>> :> "create_case"
    @@ <<"POST", <<"/api/mentorship/resources">>>> :> "upload_resource"
    @@ <<"POST", <<"/api/mentorship/sessions">>>> :> "schedule_session"
    @@ <<"POST", <<"/api/mentorship/competencies">>>>
           :> "create_custom_competency"
    @@ <<"GET", <<"/api/mentorship/reports/export">>>> :> "export_report"
    @@ <<"POST", <<"/api/mentorship/ai/assist">>>> :> "use_ai"

\* jsonify(...), status
Response(status, body) == [status |-> status, by |-> "gate", body |-> body]

\* tier_hierarchy of require_tier: Free < Premium < Enterprise
tier_hierarchy == [free |-> 0, premium |-> 1, enterprise |-> 2]

\* the suggested tier of a 403
SuggestedTier(current_tier) ==
    CASE current_tier = "free" -> "premium"
      [] current_tier = "premium" -> "enterprise"
      [] OTHER -> "None"

\* the mutant of _validate_action_limits that admits when the record store fails
_validate_action_limits_Swallow(d, gg, request, dbOk) ==
    IF "current_user_id" \notin DOMAIN gg
    THEN [out |-> Return([allowed |-> TRUE]), calls |-> <<>>]
    ELSE IF <<request.method, request.path>> \notin DOMAIN action_mapping
    THEN [out |-> Return([allowed |-> TRUE]), calls |-> <<>>]
    ELSE LET action == action_mapping[<<request.method, request.path>>]
             file_size == IF action = "upload_resource" /\ request.files /= <<>>
                          THEN request.files[1] ELSE 0
             cp == can_perform_action(d, gg.current_user_id, action,
                                      file_size, dbOk)
         IN
         IF cp.kind = "raise"
         THEN [out |-> Return([allowed |-> TRUE]),
               calls |-> <<"can_perform_action">>]
         ELSE IF ~cp.value[1]
         THEN [out |-> Return([allowed |-> FALSE, message |-> cp.value[2],
                               suggested_tier |->
                                   SuggestedTier(gg.current_tier)]),
               calls |-> <<"can_perform_action">>]
         ELSE [out |-> Return([allowed |-> TRUE]),
               calls |-> <<"can_perform_action">>]

\* the mutant of _validate_action_limits that finds the action by the path
\* alone, whatever the method
_validate_action_limits_ByPath(d, gg, request, dbOk) ==
    LET mapped == {k \in DOMAIN action_mapping : k[2] = request.path} IN
    IF "current_user_id" \notin DOMAIN gg
    THEN [out |-> Return([allowed |-> TRUE]), calls |-> <<>>]
    ELSE IF mapped = {}
    THEN [out |-> Return([allowed |-> TRUE]), calls |-> <<>>]
    ELSE LET action == action_mapping[CHOOSE k \in mapped : TRUE]
             file_size == IF action = "upload_resource" /\ request.files /= <<>>
                          THEN request.files[1] ELSE 0
             cp == can_perform_action(d, gg.current_user_id, action,
                                      file_size, dbOk)
         IN
         IF cp.kind = "raise"
         THEN [out |-> cp, calls |-> <<"can_perform_action">>]
         ELSE IF ~cp.value[1]
         THEN [out |-> Return([allowed |-> FALSE, message |-> cp.value[2],
                               suggested_tier |->
                                   SuggestedTier(gg.current_tier)]),
               calls |-> <<"can_perform_action">>]
         ELSE [out |-> Return([allowed |-> TRUE]),
               calls |-> <<"can_perform_action">>]

\* FreemiumMiddleware._validate_action_limits; `calls` lists the service
\* calls it made
_validate_action_limits(d, gg, request, dbOk) ==
    IF "current_user_id" \notin DOMAIN gg
    THEN [out |-> Return([allowed |-> TRUE]), calls |-> <<>>]
    ELSE IF <<request.method, request.path>> \notin DOMAIN action_mapping
    THEN [out |-> Return([allowed |-> TRUE]), calls |-> <<>>]
    ELSE LET action == action_mapping[<<request.method, request.path>>]
             file_size == IF action = "upload_resource" /\ request.files /= <<>>
                          THEN request.files[1] ELSE 0
             cp == can_perform_action(d, gg.current_user_id, action,
                                      file_size, dbOk)
         IN
         IF cp.kind = "raise"
         THEN [out |-> cp, calls |-> <<"can_perform_action">>]
         ELSE IF ~cp.value[1]
         THEN [out |-> Return([allowed |-> FALSE, message |-> cp.value[2],
                               suggested_tier |->
                                   SuggestedTier(gg.current_tier)]),
               calls |-> <<"can_perform_action">>]
         ELSE [out |-> Return([allowed |-> TRUE]),
               calls |-> <<"can_perform_action">>]

\* the mutant of LoadUser that takes an unknown identity for a Free account
LoadUser_AssumeFree(d, user_id) ==
    IF user_id \in DOMAIN d.users THEN <<d.users[user_id]>> ELSE <<"free">>

\* db.session.query(User).filter(User.id == user_id).first(): the row's tier
\* in a one-element sequence, or the empty sequence for None
LoadUser(d, user_id) ==
    IF user_id \in DOMAIN d.users THEN <<d.users[user_id]>> ELSE <<>>

\* the mutant of RateRejects that never rejects
RateRejects_Never(rate_limit_result) == FALSE

\* `if not rate_limit_result['allowed']`
RateRejects(rate_limit_result) == ~rate_limit_result.allowed

\* what the record store does during one before_request: it works, or it
\* fails at the user query, or it fails inside can_perform_action
DbFaults == {"none", "user", "action"}

NoRate == [result |-> [allowed |-> TRUE], ops |-> <<>>, failed |-> {}]

\* FreemiumMiddleware.before_request at time t.  Its outcome `out` is
\* Return(None) (the request goes on), Return(response) or Raise(...);
\* `calls` lists the checks it ran, in order; `rate` is what the rate limiter
\* reported and `entitled` what _validate_action_limits did.
before_request(d, r, gg, request, t, dbFault, plan) ==
    IF _is_public_route(request)
    THEN [g |-> gg, redis |-> r, out |-> Return(None), calls |-> <<>>,
          rate |-> NoRate, entitled |-> "skipped"]
    ELSE IF request.token = "invalid"
    THEN [g |-> gg, redis |-> r, out |-> Return(None), calls |-> <<>>,
          rate |-> NoRate, entitled |-> "skipped"]
    ELSE LET user_id == request.token
             g1 == gg @@ ("current_user_id" :> user_id)
             user == LoadUser(d, user_id)
         IN
         IF dbFault = "user"
         THEN [g |-> g1, redis |-> r, out |-> Raise("StorageError"),
               calls |-> <<>>, rate |-> NoRate, entitled |-> "skipped"]
         ELSE IF user = <<>>
         THEN [g |-> g1, redis |-> r,
               out |-> Return(Response(404, [error |-> "user_not_found"])),
               calls |-> <<>>, rate |-> NoRate, entitled |-> "skipped"]
         ELSE LET g2 == g1 @@ ("current_user" :> user_id)
                         @@ ("current_tier" :> TierOrFree(user[1]))
                  rate == _apply_rate_limiting(r, user_id,
                                               TierOrFree(user[1]), t, plan)
                  seen == [result |-> rate.result, ops |-> rate.ops,
                           failed |-> rate.failed]
              IN
              IF RateRejects(rate.result)
              THEN [g |-> g2, redis |-> rate.redis,
                    out |-> Return(Response(429,
                               [error |-> "rate_limit",
                                message |-> rate.result.message,
                                retry_after |-> rate.result.retry_after])),
                    calls |-> <<"_apply_rate_limiting">>, rate |-> seen,
                    entitled |-> "skipped"]
              ELSE LET v == _validate_action_limits(d, g2, request,
                                                    dbFault /= "action")
                       calls == <<"_apply_rate_limiting",
                                  "_validate_action_limits">> \o v.calls
                   IN
                   IF v.out.kind = "raise"
                   THEN [g |-> g2, redis |-> rate.redis, out |-> v.out,
                         calls |-> calls, rate |-> seen,
                         entitled |-> "raised"]
                   ELSE IF ~v.out.value.allowed
                   THEN [g |-> g2, redis |-> rate.redis,
                         out |-> Return(Response(403,
                                    [error |-> "plan_limit",
                                     message |-> v.out.value.message,
                                     upgrade_required |-> TRUE,
                                     current_tier |-> user[1],
                                     suggested_tier |->
                                         v.out.value.suggested_tier])),
                         calls |-> calls, rate |-> seen,
                         entitled |-> "denied"]
                   ELSE [g |-> g2, redis |-> rate.redis,
                         out |-> Return(None), calls |-> calls,
                         rate |-> seen, entitled |-> "allowed"]

\* what the counter store does during one _log_usage_metrics
MetricsFaults == {"none", "lpush", "expire"}

\* TTL of a usage_metrics list: 30 days
MetricsTTL == 30 * 24 * 3600

\* metrics_key: the day (strftime('%Y%m%d')) and the user
MetricsKey(user_id, t) == <<"usage_metrics", t \div 86400, user_id>>

\* the mutant of _log_usage_metrics that lets the error escape
_log_usage_metrics_NoCatch(gg, ev, response, t, mfault) ==
    IF "current_tier" \notin DOMAIN gg
    THEN [events |-> ev, out |-> Raise("AttributeError"),
          error |-> "AttributeError"]
    ELSE LET metrics == [user_id |-> gg.current_user_id,
                         tier |-> gg.current_tier,
                         status_code |-> response.status]
             metrics_key == MetricsKey(gg.current_user_id, t)
             pushed == redis_lpush(ev, metrics_key, metrics)
         IN
         IF mfault = "lpush"
         THEN [events |-> ev, out |-> Raise("RedisError"),
               error |-> "RedisError"]
         ELSE IF mfault = "expire"
         THEN [events |-> pushed, out |-> Raise("RedisError"),
               error |-> "RedisError"]
         ELSE [events |-> redis_expire(pushed, metrics_key, MetricsTTL, t),
               out |-> Return(None), error |-> "none"]

\* FreemiumMiddleware._log_usage_metrics: every error is caught and logged
\* (`error`, "none" when there was none).  Of the metrics' fields the user,
\* the tier and the status code are kept.
_log_usage_metrics(gg, ev, response, t, mfault) ==
    IF "current_tier" \notin DOMAIN gg
    THEN [events |-> ev, out |-> Return(None), error |-> "AttributeError"]
    ELSE LET metrics == [user_id |-> gg.current_user_id,
                         tier |-> gg.current_tier,
                         status_code |-> response.status]
             metrics_key == MetricsKey(gg.current_user_id, t)
             pushed == redis_lpush(ev, metrics_key, metrics)
         IN
         IF mfault = "lpush"
         THEN [events |-> ev, out |-> Return(None), error |-> "RedisError"]
         ELSE IF mfault = "expire"
         THEN [events |-> pushed, out |-> Return(None),
               error |-> "RedisError"]
         ELSE [events |-> redis_expire(pushed, metrics_key, MetricsTTL, t),
               out |-> Return(None), error |-> "none"]

\* FreemiumMiddleware.after_request
after_request(gg, ev, response, t, mfault) ==
    IF "current_user_id" \in DOMAIN gg
    THEN LET m == _log_usage_metrics(gg, ev, response, t, mfault) IN
         IF m.out.kind = "raise"
         THEN [events |-> m.events, out |-> m.out, error |-> m.error]
         ELSE [events |-> m.events, out |-> Return(response),
               error |-> m.error]
    ELSE [events |-> ev, out |-> Return(response), error |-> "none"]

(***************************************************************************)
(* Defaults of the variables a specification does not use.                 *)
(***************************************************************************)
EmptyMap == [k \in {} |-> 0]

NoCall == [op |-> "none"]

NoResponse == [status |-> 0, by |-> "none", body |-> None]

NoRequest == [method |-> "-", path |-> <<>>, token |-> "invalid",
              files |-> <<>>]

\* no request in flight
IdleRequest ==
    [pc |-> "idle", n |-> 0, request |-> NoRequest, calls |-> <<>>,
     rate |-> NoRate, entitled |-> "skipped", gate |-> Return(None),
     db_fault |-> "none", dispatched |-> FALSE, resp_in |-> NoResponse,
     redis_before |-> EmptyMap, events_before |-> EmptyMap,
     after |-> Return(None), metrics_fault |-> "none",
     metrics_error |-> "none"]

(***************************************************************************)
(* SpecService: record stores drawn from a bounded set, and the service    *)
(* called on them.  A drawn store holds entities in at most MaxVaried      *)
(* classes; each such class holds a count at the edge of the account's     *)
(* limit L for it (L-1, L, L+1) or far above it (Huge).                    *)
(***************************************************************************)
\* the TierLimits field that bounds an entity class
ClassLimit(t, c) ==
    LET limits == TIER_LIMITS[TierOrFree(t)] IN
    CASE c \in {"interns_recent", "interns_old"} -> limits.interns
      [] c \in {"cases_recent", "cases_old"} -> limits.cases
      [] c \in {"resources_recent", "resources_old"} -> limits.resources
      [] c \in {"sessions_month", "sessions_window"} -> limits.sessions
      [] c = "storage" -> limits.storage_bytes
      [] c = "custom_competencies" -> limits.custom_competencies

ProbeIndex == {"below", "at", "above", "huge"}

Probe(L, i) ==
    LET x == CASE i = "below" -> L - 1
               [] i = "at" -> L
               [] i = "above" -> L + 1
               [] i = "huge" -> Huge
    IN IF x >= 1 THEN x ELSE 1

VariedSets == {S \in SUBSET Classes : Cardinality(S) <= MaxVaried}

\* a resource row carries the bytes: no storage without a resource
Consistent(o) == o.storage > 0 => o.resources_recent + o.resources_old > 0

DrawnOwned(t) ==
    LET Draw(S) ==
            {[c \in Classes |->
                 IF c \in S THEN Probe(ClassLimit(t, c), f[c]) ELSE 0] :
             f \in [S -> ProbeIndex]}
    IN {o \in UNION {Draw(S) : S \in VariedSets} : Consistent(o)}

DrawnStores ==
    UNION {{[users |-> ("u1" :> t), owned |-> ("u1" :> o)] :
            o \in DrawnOwned(t)} : t \in StoredTiers}

\* upload sizes offered to can_perform_action('upload_resource', file_size=...)
UploadSizes == {0, 1, TIER_LIMITS.free.storage_bytes, Huge}

\* no MENTORSHIP_* setting is present; no worker runs
InitAux ==
    /\ environ = EmptyMap
    /\ catalog = TIER_LIMITS
    /\ CURRENT_TIER = "free"
    /\ procs = EmptyMap
    /\ ttl_sets = EmptyMap
    /\ incr_log = EmptyMap

InitOthers ==
    /\ InitAux
    /\ redis = EmptyMap
    /\ now = 0
    /\ t0 = 0
    /\ acct = "free"
    /\ nreq = 0
    /\ faults = 0
    /\ rl = NoCall
    /\ events = EmptyMap
    /\ req = IdleRequest
    /\ g = EmptyMap
    /\ resp = NoResponse

InitService ==
    /\ db \in DrawnStores
    /\ svc = NoCall
    /\ InitOthers

\* a caller evaluates can_perform_action(user_id, action, **kwargs); the
\* service only reads the record store, so one call per behaviour shows all
CallCanPerform ==
    \E user_id \in UserIds, action \in KnownActions \cup {"archive_intern"},
       file_size \in UploadSizes, dbOk \in BOOLEAN :
        /\ svc = NoCall
        /\ action /= "upload_resource" => file_size = 0
        /\ svc' = [op |-> "can_perform_action", user_id |-> user_id,
                   action |-> action, file_size |-> file_size,
                   out |-> can_perform_action(db, user_id, action, file_size,
                                              dbOk)]
        /\ UNCHANGED <<aux, db, redis, now, t0, acct, nreq, faults, rl, events, req, g,
                       resp>>

\* a caller evaluates validate_tier_limits(user_id)
CallValidate ==
    \E user_id \in UserIds, dbOk \in BOOLEAN :
        /\ svc = NoCall
        /\ svc' = [op |-> "validate_tier_limits", user_id |-> user_id,
                   action |-> "-", file_size |-> 0,
                   out |-> validate_tier_limits(db, user_id, dbOk)]
        /\ UNCHANGED <<aux, db, redis, now, t0, acct, nreq, faults, rl, events, req, g,
                       resp>>

\* a caller evaluates get_user_usage_metrics(user_id)
CallMetrics ==
    \E user_id \in UserIds, dbOk \in BOOLEAN :
        /\ svc = NoCall
        /\ svc' = [op |-> "get_user_usage_metrics", user_id |-> user_id,
                   action |-> "-", file_size |-> 0,
                   out |-> get_user_usage_metrics(db, user_id, dbOk)]
        /\ UNCHANGED <<aux, db, redis, now, t0, acct, nreq, faults, rl, events, req, g,
                       resp>>

\* a caller evaluates get_upgrade_recommendations(user_id)
CallAdvice ==
    \E user_id \in UserIds, dbOk \in BOOLEAN :
        /\ svc = NoCall
        /\ svc' = [op |-> "get_upgrade_recommendations", user_id |-> user_id,
                   action |-> "-", file_size |-> 0,
                   out |-> get_upgrade_recommendations(db, user_id, dbOk)]
        /\ UNCHANGED <<aux, db, redis, now, t0, acct, nreq, faults, rl, events, req, g,
                       resp>>

\* the requests whose entitlement step is probed: a mapped route, the same
\* path under other methods, a longer path, and a route of another module
ProbedRequests ==
    {[method |-> rt[1], path |-> rt[2], token |-> "u1", files |-> <<>>] :
     rt \in {<<"POST", <<"/api/mentorship/interns">>>>,
             <<"GET", <<"/api/mentorship/interns">>>>,
             <<"DELETE", <<"/api/mentorship/interns">>>>,
             <<"POST", <<"/api/mentorship/interns", "/42/notes">>>>,
             <<"POST", <<"/api/patients">>>>}}

\* before_request reaches _validate_action_limits for a request of account
\* u1, with flask.g as the earlier steps of the gate left it
CallValidateAction ==
    \E request \in ProbedRequests, dbOk \in BOOLEAN :
      \E v \in {_validate_action_limits(
                   db,
                   ("current_user_id" :> "u1") @@ ("current_user" :> "u1")
                       @@ ("current_tier" :> TierOrFree(db.users["u1"])),
                   request, dbOk)} :
        /\ svc = NoCall
        /\ svc' = [op |-> "_validate_action_limits", user_id |-> "u1",
                   action |-> "-", file_size |-> 0, request |-> request,
                   out |-> v.out, calls |-> v.calls]
        /\ UNCHANGED <<aux, db, redis, now, t0, acct, nreq, faults, rl,
                       events, req, g, resp>>

NextService ==
    CallCanPerform \/ CallValidate \/ CallMetrics \/ CallAdvice
        \/ CallValidateAction

SpecService == InitService /\ [][NextService]_vars

(***************************************************************************)
(* SpecRate: one account's requests pass the rate limiter one after the    *)
(* other while the clock advances.  The counter store outlives the web     *)
(* process, so the initial store may already hold the account's hour and   *)
(* day buckets, filled by earlier traffic; the minute bucket starts empty  *)
(* and nreq counts the requests issued in the current one.  Up to          *)
(* limit + MaxOver requests are issued in the first minute bucket and up   *)
(* to MaxOver in each later one.  The store works throughout; SpecGate     *)
(* runs the same limiter with failing store commands.                      *)
(***************************************************************************)
PeriodSet == {Periods[i] : i \in 1..Len(Periods)}

NoFaults == [p \in PeriodSet |-> "none"]

\* during one request the store works, or one command of one check fails
FaultPlans ==
    {NoFaults} \cup
    {[NoFaults EXCEPT ![p] = f] : p \in PeriodSet, f \in StoreFaults \ {"none"}}

\* the clock starts at the top of an hour or 30 s before the next one
StartTimes == {0, WindowTTL("requests_per_hour") - TickStep}

\* the counter of a bucket, 0 when the key is absent
Count(r, key) == IF key \in DOMAIN r THEN r[key].n ELSE 0

\* a bucket filled by earlier traffic: its expiry was set by its first hit
Bucket(user_id, period, t, n) ==
    LET key == WindowKey(user_id, period, t) IN
    IF n = 0 THEN EmptyMap
    ELSE key :> [n |-> n, volatile |-> TRUE,
                 exp |-> key[3] + WindowTTL(period)]

\* <<hour count, day count>> left by earlier traffic; an account that was
\* upgraded to an unlimited tier may have left any count behind
PriorCounts(tier) ==
    LET H == rate_limits[tier].requests_per_hour
        D == rate_limits[tier].requests_per_day
    IN IF H = -1 THEN {<<0, 0>>, <<Huge, Huge>>}
       ELSE {<<0, 0>>, <<H - 1, H - 1>>, <<0, D - 1>>}

InitRate ==
    /\ acct \in MentorshipTier
    /\ t0 \in StartTimes
    /\ now = t0
    /\ \E prior \in PriorCounts(acct) :
          redis = Bucket("u1", "requests_per_hour", t0, prior[1])
                  @@ Bucket("u1", "requests_per_day", t0, prior[2])
    /\ nreq = 0
    /\ faults = 0
    /\ rl = NoCall
    /\ db = [users |-> ("u1" :> acct), owned |-> ("u1" :> NoEntities)]
    /\ svc = NoCall
    /\ events = EmptyMap
    /\ req = IdleRequest
    /\ g = EmptyMap
    /\ resp = NoResponse
    /\ InitAux

SameMinute(t1, t2) ==
    WindowKey("u1", "requests_per_minute", t1)
        = WindowKey("u1", "requests_per_minute", t2)

RequestCap ==
    LET K == rate_limits[acct].requests_per_minute IN
    IF ~SameMinute(now, t0) THEN MaxOver
    ELSE IF K = -1 THEN rate_limits.free.requests_per_minute + MaxOver
    ELSE K + MaxOver

\* a request of the account reaches _apply_rate_limiting; the store works
RateRequest ==
        LET out == _apply_rate_limiting(redis, "u1", acct, now, NoFaults) IN
        /\ nreq < RequestCap
        /\ redis' = out.redis
        /\ rl' = [op |-> "_apply_rate_limiting", seq |-> nreq + 1,
                  at |-> now, before |-> redis, result |-> out.result,
                  ops |-> out.ops, failed |-> out.failed]
        /\ nreq' = nreq + 1
        /\ UNCHANGED <<aux, db, svc, now, t0, acct, faults, events, req, g, resp>>

\* the clock advances; expired keys leave the store
Tick ==
    /\ now + TickStep <= t0 + MaxElapsed
    /\ now' = now + TickStep
    /\ redis' = redis_at(redis, now')
    /\ nreq' = IF SameMinute(now, now') THEN nreq ELSE 0
    /\ UNCHANGED <<aux, db, svc, t0, acct, faults, rl, events, req, g, resp>>

NextRate == RateRequest \/ Tick

SpecRate == InitRate /\ [][NextRate]_vars

(***************************************************************************)
(* SpecUnlimited: the three places that test a limit, run on usage far     *)
(* above every limit of the catalog.  A drawn record store holds Huge      *)
(* entities in at most MaxVaried classes and the counter store may hold    *)
(* Huge counters in the account's buckets.                                 *)
(***************************************************************************)
HugeOwned ==
    {[c \in Classes |-> IF c \in S THEN Huge ELSE 0] : S \in VariedSets}

HugeStores ==
    {[users |-> ("u1" :> t), owned |-> ("u1" :> o)] :
     t \in StoredTiers, o \in {x \in HugeOwned : Consistent(x)}}

InitUnlimited ==
    /\ db \in HugeStores
    /\ acct = TierOrFree(db.users["u1"])
    /\ t0 = 0
    /\ now = 0
    /\ \E n \in {0, Huge} :
          redis = Bucket("u1", "requests_per_minute", 0, n)
                  @@ Bucket("u1", "requests_per_hour", 0, n)
                  @@ Bucket("u1", "requests_per_day", 0, n)
    /\ nreq = 0
    /\ faults = 0
    /\ rl = NoCall
    /\ svc = NoCall
    /\ events = EmptyMap
    /\ req = IdleRequest
    /\ g = EmptyMap
    /\ resp = NoResponse
    /\ InitAux

\* a request of the account reaches _apply_rate_limiting; the store works
RateProbe ==
        LET out == _apply_rate_limiting(redis, "u1", acct, now, NoFaults) IN
        /\ nreq < MaxOver
        /\ redis' = out.redis
        /\ rl' = [op |-> "_apply_rate_limiting", seq |-> nreq + 1,
                  at |-> now, before |-> redis, result |-> out.result,
                  ops |-> out.ops, failed |-> out.failed]
        /\ nreq' = nreq + 1
        /\ UNCHANGED <<aux, db, svc, now, t0, acct, faults, events, req, g, resp>>

NextUnlimited == CallCanPerform \/ CallValidate \/ RateProbe

SpecUnlimited == InitUnlimited /\ [][NextUnlimited]_vars

(***************************************************************************)
(* SpecGate: requests pass the Flask request cycle one after the other:    *)
(* before_request, then the route handler unless before_request returned a *)
(* response or raised, then after_request.  An exception that escapes      *)
(* before_request or after_request becomes Flask's 500 response; after an  *)
(* exception in before_request the after_request hook still runs.          *)
(* The record store holds one account with nothing or with every entity    *)
(* class at its limit; the counter store may hold the account's buckets,   *)
(* filled by earlier traffic.  At most MaxFaults store operations fail.    *)
(***************************************************************************)
\* requests served in one behaviour
MaxRequests == 2

Routes ==
    {<<"POST", <<"/api/mentorship/interns">>>>,
     <<"GET", <<"/api/mentorship/interns">>>>,
     <<"POST", <<"/api/mentorship/resources">>>>,
     <<"GET", <<"/api/mentorship/reports/export">>>>,
     <<"GET", <<"/api/health">>>>,
     <<"GET", <<"/api/metrics", "/daily">>>>}

Tokens == UserIds \cup {"invalid"}

Requests ==
    {[method |-> rt[1], path |-> rt[2], token |-> tk, files |-> fs] :
     rt \in Routes, tk \in Tokens, fs \in {<<>>, <<Huge>>}}

GateOwned(t) ==
    {NoEntities, [c \in Classes |-> Probe(ClassLimit(t, c), "at")]}

\* the count earlier traffic left in the account's buckets
GatePrior(tier) ==
    LET K == rate_limits[tier].requests_per_minute IN
    IF K = -1 THEN {0, Huge} ELSE {0, K - 1, K}

InitGate ==
    /\ \E t \in StoredTiers :
          \E o \in GateOwned(t) :
              db = [users |-> ("u1" :> t), owned |-> ("u1" :> o)]
    /\ acct = TierOrFree(db.users["u1"])
    /\ t0 = 0
    /\ now = 0
    /\ \E n \in GatePrior(acct) :
          redis = Bucket("u1", "requests_per_minute", 0, n)
                  @@ Bucket("u1", "requests_per_hour", 0, n)
                  @@ Bucket("u1", "requests_per_day", 0, n)
    /\ nreq = 0
    /\ faults = 0
    /\ rl = NoCall
    /\ svc = NoCall
    /\ events = EmptyMap
    /\ req = IdleRequest
    /\ g = EmptyMap
    /\ resp = NoResponse
    /\ InitAux

\* a request arrives; flask.g starts empty
Arrive ==
    \E rq \in Requests :
        /\ req.pc \in {"idle", "done"}
        /\ req.n < MaxRequests
        /\ rq.files /= <<>> =>
              <<rq.method, rq.path>> \in DOMAIN action_mapping
              /\ action_mapping[<<rq.method, rq.path>>] = "upload_resource"
        /\ req' = [IdleRequest EXCEPT !.pc = "before", !.n = req.n + 1,
                                      !.request = rq,
                                      !.redis_before = redis,
                                      !.events_before = events]
        /\ g' = EmptyMap
        /\ resp' = NoResponse
        /\ UNCHANGED <<aux, db, svc, redis, now, t0, acct, nreq, faults, rl, events>>

\* Flask runs before_request
BeforeRequest ==
    \E dbFault \in DbFaults, plan \in FaultPlans :
      \E b \in {before_request(db, redis, g, req.request, now, dbFault, plan)} :
        LET dbHit == \/ dbFault = "user" /\ "current_user_id" \in DOMAIN b.g
                     \/ dbFault = "action"
                        /\ \E i \in 1..Len(b.calls) :
                               b.calls[i] = "can_perform_action"
            hits == Cardinality(b.rate.failed) + (IF dbHit THEN 1 ELSE 0)
        IN
        /\ req.pc = "before"
        /\ dbFault /= "none" => dbHit
        /\ \A p \in PeriodSet : plan[p] /= "none" => p \in b.rate.failed
        /\ faults + hits <= MaxFaults
        /\ faults' = faults + hits
        /\ g' = b.g
        /\ redis' = b.redis
        /\ resp' = IF b.out.kind = "raise"
                   THEN [status |-> 500, by |-> "flask", body |-> None]
                   ELSE IF b.out.value = None THEN NoResponse
                   ELSE b.out.value
        /\ req' = [req EXCEPT
                      !.pc = IF b.out = Return(None) THEN "handler"
                             ELSE "after",
                      !.calls = b.calls, !.rate = b.rate,
                      !.entitled = b.entitled, !.gate = b.out,
                      !.db_fault = dbFault]
        /\ UNCHANGED <<aux, db, svc, now, t0, acct, nreq, rl, events>>

\* what a route handler may answer
HandlerStatuses == {200, 500}

\* Flask dispatches the request to its route handler
Handler ==
    \E status \in HandlerStatuses :
        /\ req.pc = "handler"
        /\ resp' = [status |-> status, by |-> "handler", body |-> None]
        /\ req' = [req EXCEPT !.pc = "after", !.dispatched = TRUE]
        /\ UNCHANGED <<aux, db, svc, redis, now, t0, acct, nreq, faults, rl, events,
                       g>>

\* Flask runs after_request on the response
AfterRequest ==
    \E mfault \in MetricsFaults :
      \E a \in {after_request(g, events, resp, now, mfault)} :
        LET hits == IF a.error = "RedisError" THEN 1 ELSE 0 IN
        /\ req.pc = "after"
        /\ mfault /= "none" => a.error = "RedisError"
        /\ faults + hits <= MaxFaults
        /\ faults' = faults + hits
        /\ events' = a.events
        /\ resp' = IF a.out.kind = "raise"
                   THEN [status |-> 500, by |-> "flask", body |-> None]
                   ELSE a.out.value
        /\ req' = [req EXCEPT !.pc = "done", !.resp_in = resp,
                              !.after = a.out, !.metrics_fault = mfault,
                              !.metrics_error = a.error]
        /\ UNCHANGED <<aux, db, svc, redis, now, t0, acct, nreq, rl, g>>

NextGate == Arrive \/ BeforeRequest \/ Handler \/ AfterRequest

SpecGate == InitGate /\ [][NextGate]_vars

(***************************************************************************)
(* SpecAdvice: record stores whose usage sits around 80%, 85% and 100% of  *)
(* the account's limits, and the advice the service and the gate give on   *)
(* them: validate_tier_limits, get_upgrade_recommendations, and one        *)
(* request to a route the entitlement check knows.                         *)
(***************************************************************************)
\* the entity classes get_user_usage_metrics counts
AdviceClasses ==
    {"interns_recent", "cases_recent", "resources_recent", "sessions_window",
     "storage", "custom_competencies"}

AdviceIndex == {"under80", "at80", "at85", "below", "at", "above"}

\* the smallest count that is at least pct percent of L
AtLeastPercent(L, pct) == (pct * L + 99) \div 100

AdviceProbe(L, i) ==
    LET x == CASE L = -1 -> (IF i = "above" THEN Huge ELSE 1)
               [] i = "under80" -> AtLeastPercent(L, 80) - 1
               [] i = "at80" -> AtLeastPercent(L, 80)
               [] i = "at85" -> AtLeastPercent(L, 85)
               [] i = "below" -> L - 1
               [] i = "at" -> L
               [] i = "above" -> L + 1
    IN IF x >= 1 THEN x ELSE 1

AdviceSets == {S \in SUBSET AdviceClasses : Cardinality(S) <= MaxVaried}

\* stored bytes belong to a resource row; when no recent resource is drawn
\* the row is an old one
AdviceOwned(t) ==
    LET Draw(S) ==
            {[c \in Classes |->
                 IF c \in S THEN AdviceProbe(ClassLimit(t, c), f[c])
                 ELSE IF c = "resources_old" /\ "storage" \in S
                         /\ "resources_recent" \notin S THEN 1
                 ELSE 0] :
             f \in [S -> AdviceIndex]}
    IN UNION {Draw(S) : S \in AdviceSets}

AdviceStores ==
    UNION {{[users |-> ("u1" :> t), owned |-> ("u1" :> o)] :
            o \in AdviceOwned(t)} : t \in StoredTiers}

\* the requests of account u1 to the routes of action_mapping
AdviceRequests ==
    {[method |-> rt[1], path |-> rt[2], token |-> "u1", files |-> fs] :
     rt \in DOMAIN action_mapping, fs \in {<<>>, <<Huge>>}}

InitAdvice ==
    /\ db \in AdviceStores
    /\ svc = NoCall
    /\ InitOthers

\* a caller evaluates get_upgrade_recommendations(user_id)
CallRecommend ==
    \E user_id \in UserIds, dbOk \in BOOLEAN :
        /\ svc = NoCall
        /\ svc' = [op |-> "get_upgrade_recommendations", user_id |-> user_id,
                   action |-> "-", file_size |-> 0,
                   out |-> get_upgrade_recommendations(db, user_id, dbOk)]
        /\ UNCHANGED <<aux, db, redis, now, t0, acct, nreq, faults, rl, events,
                       req, g, resp>>

\* the account sends one request and Flask runs before_request on it
AdviceRequest ==
    \E rq \in AdviceRequests :
      \E b \in {before_request(db, redis, EmptyMap, rq, now, "none", NoFaults)} :
        /\ svc = NoCall
        /\ rq.files /= <<>> =>
              action_mapping[<<rq.method, rq.path>>] = "upload_resource"
        /\ svc' = [op |-> "before_request", user_id |-> rq.token,
                   action |-> action_mapping[<<rq.method, rq.path>>],
                   file_size |-> IF rq.files = <<>> THEN 0 ELSE rq.files[1],
                   out |-> b.out]
        /\ g' = b.g
        /\ redis' = b.redis
        /\ resp' = IF b.out.kind = "raise"
                   THEN [status |-> 500, by |-> "flask", body |-> None]
                   ELSE IF b.out.value = None THEN NoResponse
                   ELSE b.out.value
        /\ UNCHANGED <<aux, db, now, t0, acct, nreq, faults, rl, events, req>>

NextAdvice == CallValidate \/ CallRecommend \/ AdviceRequest

SpecAdvice == InitAdvice /\ [][NextAdvice]_vars

(***************************************************************************)
(* config.py, as the class body of MentorshipConfig builds it when the     *)
(* module is imported: every numeric limit is int(os.getenv(NAME, default))*)
(* and the export flag of Free and Premium is                              *)
(* os.getenv(NAME, default).lower() == 'true'.  A setting is keyed here by *)
(* <<tier, field>>; a numeric setting holds the integer its text denotes   *)
(* (a text int() rejects stops the import, so no state follows it) and a   *)
(* flag setting holds its lower-cased text.                                *)
(***************************************************************************)
NumericLimits ==
    {"interns", "cases", "resources", "sessions", "storage_bytes",
     "ai_requests_per_month", "video_sessions_per_month",
     "custom_competencies"}

FeatureFlags ==
    {"export_reports", "priority_support", "advanced_analytics",
     "white_label"}

\* the fields of TIER_LIMITS that read an environment setting
Settable ==
    (MentorshipTier \X NumericLimits)
        \cup ({"free", "premium"} \X {"export_reports"})

SettingValues(key) ==
    IF key[2] = "export_reports" THEN {"true", "false", "yes"}
    ELSE {-1, 0, 1, Huge}

\* the environment holds no setting of a limit, or one
Environments ==
    {EmptyMap} \cup
    UNION {{key :> v : v \in SettingValues(key)} : key \in Settable}

\* the TIER_LIMITS dict of MentorshipConfig
LoadCatalog(env) ==
    [t \in MentorshipTier |->
        [f \in NumericLimits \cup FeatureFlags |->
            IF <<t, f>> \in DOMAIN env
            THEN IF f = "export_reports" THEN env[<<t, f>>] = "true"
                 ELSE env[<<t, f>>]
            ELSE TIER_LIMITS[t][f]]]

\* MentorshipConfig.get_current_limits
get_current_limits(cat, cur) == cat[cur]

\* MentorshipConfig.get_feature_availability
get_feature_availability(cat, cur) ==
    LET limits == get_current_limits(cat, cur) IN
    [export_reports |-> limits.export_reports,
     priority_support |-> limits.priority_support,
     advanced_analytics |-> limits.advanced_analytics,
     white_label |-> limits.white_label,
     custom_competencies |-> limits.custom_competencies > 0,
     video_sessions |-> limits.video_sessions_per_month > 0,
     ai_assistance |-> limits.ai_requests_per_month > 0]

(***************************************************************************)
(* middleware.py: the decorators.  A decorated handler is called with the  *)
(* flask.g the gate left; `called` says whether the wrapped function f ran *)
(* and `response` is what the decorated function returned.                 *)
(***************************************************************************)
\* what the wrapped handler answers
HandlerResponse == [status |-> 200, by |-> "handler", body |-> None]

Rejection(status, body) ==
    [called |-> FALSE,
     out |-> Return([status |-> status, by |-> "decorator", body |-> body])]

\* the mutant of TierBelow that also rejects the required tier itself
TierBelow_OrEqual(current_tier, required_tier) ==
    tier_hierarchy[current_tier] <= tier_hierarchy[required_tier]

\* `tier_hierarchy[current_tier] < tier_hierarchy[required_tier]`
TierBelow(current_tier, required_tier) ==
    tier_hierarchy[current_tier] < tier_hierarchy[required_tier]

\* require_tier(min_tier)(f), called
require_tier(gg, min_tier) ==
    IF "current_tier" \notin DOMAIN gg
    THEN Rejection(401, [error |-> "auth_required"])
    ELSE IF TierBelow(gg.current_tier, min_tier)
    THEN Rejection(403, [error |-> "insufficient_tier",
                         message |-> min_tier,
                         current_tier |-> gg.current_tier,
                         required_tier |-> min_tier,
                         upgrade_required |-> TRUE])
    ELSE [called |-> TRUE, out |-> Return(HandlerResponse)]

\* require_feature(feature_name)(f), called
require_feature(gg, cat, cur, feature_name) ==
    IF "current_user_id" \notin DOMAIN gg
    THEN Rejection(401, [error |-> "auth_required"])
    ELSE LET features == get_feature_availability(cat, cur) IN
         IF ~(feature_name \in DOMAIN features /\ features[feature_name])
         THEN IF "current_tier" \notin DOMAIN gg
              THEN [called |-> FALSE, out |-> Raise("AttributeError")]
              ELSE Rejection(403, [error |-> "feature_unavailable",
                                   message |-> feature_name,
                                   current_tier |-> gg.current_tier,
                                   upgrade_required |-> TRUE])
         ELSE [called |-> TRUE, out |-> Return(HandlerResponse)]

(***************************************************************************)
(* SpecGuards: a process starts with some environment, the gate has let a  *)
(* request through (with the caller identified, or without an identity),   *)
(* and a decorated handler is called.  MentorshipConfig.upgrade_tier may   *)
(* change the process-wide tier before.                                    *)
(***************************************************************************)
\* the names handlers are decorated with; "beta_reports" is no feature
FeatureNames ==
    {"export_reports", "priority_support", "advanced_analytics",
     "white_label", "custom_competencies", "video_sessions", "ai_assistance",
     "beta_reports"}

\* flask.g as before_request leaves it for account u1
IdentifiedAs(tier) ==
    ("current_user_id" :> "u1") @@ ("current_user" :> "u1")
        @@ ("current_tier" :> tier)

InitGuards ==
    /\ environ \in Environments
    /\ catalog = LoadCatalog(environ)
    /\ CURRENT_TIER \in MentorshipTier
    /\ \E t \in StoredTiers :
          /\ db = [users |-> ("u1" :> t), owned |-> ("u1" :> NoEntities)]
          /\ g \in {EmptyMap, IdentifiedAs(TierOrFree(t))}
    /\ procs = EmptyMap
    /\ ttl_sets = EmptyMap
    /\ incr_log = EmptyMap
    /\ svc = NoCall
    /\ redis = EmptyMap
    /\ now = 0
    /\ t0 = 0
    /\ acct = "free"
    /\ nreq = 0
    /\ faults = 0
    /\ rl = NoCall
    /\ events = EmptyMap
    /\ req = IdleRequest
    /\ resp = NoResponse

\* MentorshipConfig.upgrade_tier(new_tier)
UpgradeTier ==
    \E new_tier \in MentorshipTier :
        /\ svc = NoCall
        /\ CURRENT_TIER' = new_tier
        /\ UNCHANGED <<environ, catalog, procs, ttl_sets, incr_log, db, svc, redis, now,
                       t0, acct, nreq, faults, rl, events, req, g, resp>>

\* Flask dispatches to a handler decorated with @require_tier(min_tier)
CallRequireTier ==
    \E min_tier \in MentorshipTier :
      \E d \in {require_tier(g, min_tier)} :
        /\ svc = NoCall
        /\ svc' = [op |-> "require_tier", arg |-> min_tier,
                   called |-> d.called, out |-> d.out]
        /\ resp' = IF d.out.kind = "raise"
                   THEN [status |-> 500, by |-> "flask", body |-> None]
                   ELSE d.out.value
        /\ UNCHANGED <<aux, db, redis, now, t0, acct, nreq, faults, rl, events,
                       req, g>>

\* Flask dispatches to a handler decorated with @require_feature(feature_name)
CallRequireFeature ==
    \E feature_name \in FeatureNames :
      \E d \in {require_feature(g, catalog, CURRENT_TIER, feature_name)} :
        /\ svc = NoCall
        /\ svc' = [op |-> "require_feature", arg |-> feature_name,
                   called |-> d.called, out |-> d.out]
        /\ resp' = IF d.out.kind = "raise"
                   THEN [status |-> 500, by |-> "flask", body |-> None]
                   ELSE d.out.value
        /\ UNCHANGED <<aux, db, redis, now, t0, acct, nreq, faults, rl, events,
                       req, g>>

NextGuards == UpgradeTier \/ CallRequireTier \/ CallRequireFeature

SpecGuards == InitGuards /\ [][NextGuards]_vars

(***************************************************************************)
(* SpecWorkers: requests of one account are served by workers that run     *)
(* _check_rate_limit at the same time.  A worker reads the clock and       *)
(* builds its key, sends INCR, and sends EXPIRE when the count it got back *)
(* is 1; the counter store runs each command atomically and the commands   *)
(* of the workers interleave in any order, with any delay between them.    *)
(* ttl_sets keeps, for every key in the store, the EXPIRE commands applied *)
(* to it since it was created, and incr_log the counts its INCR commands   *)
(* returned (`base` is what earlier requests had left in it).              *)
(***************************************************************************)
\* workers that serve requests at the same time
MaxWorkers == 3

Workers == 1..MaxWorkers

IdleWorker ==
    [pc |-> "idle", period |-> "-", window_key |-> <<>>, ttl |-> 0,
     limit |-> 0, current_count |-> 0, result |-> "-"]

\* the mutant of NeedsExpire that sets the expiry on every hit
NeedsExpire_Always(current_count) == TRUE

\* `if current_count == 1`
NeedsExpire(current_count) == current_count = 1

\* the count earlier requests left in the account's minute bucket: none, or
\* (when the clock starts at the top of an hour) one short of the limit
WorkersPrior(t) ==
    IF t = 0 THEN {0, rate_limits.free.requests_per_minute - 1} ELSE {0}

InitWorkers ==
    /\ db = [users |-> ("u1" :> "free"), owned |-> ("u1" :> NoEntities)]
    /\ acct = "free"
    /\ t0 \in StartTimes
    /\ now = t0
    /\ \E n \in WorkersPrior(t0) :
          LET prior == Bucket("u1", "requests_per_minute", t0, n) IN
          /\ redis = prior
          /\ ttl_sets = [k \in DOMAIN prior |->
                            <<[by |-> 0, current_count |-> 1,
                               ttl |-> WindowTTL(k[2]), at |-> k[3],
                               n |-> 1]>>]
          /\ incr_log = [k \in DOMAIN prior |->
                            [base |-> n, seen |-> <<>>, by |-> <<>>]]
    /\ procs = [w \in Workers |-> IdleWorker]
    /\ environ = EmptyMap
    /\ catalog = TIER_LIMITS
    /\ CURRENT_TIER = "free"
    /\ svc = NoCall
    /\ nreq = 0
    /\ faults = 0
    /\ rl = NoCall
    /\ events = EmptyMap
    /\ req = IdleRequest
    /\ g = EmptyMap
    /\ resp = NoResponse

\* lines 145-159: the worker reads the clock and builds window_key and ttl
WorkerStart(w) ==
    \E period \in PeriodSet :
        /\ procs[w].pc = "idle"
        /\ procs' = [procs EXCEPT ![w] =
                        [pc |-> "incr", period |-> period,
                         window_key |-> WindowKey("u1", period, now),
                         ttl |-> WindowTTL(period),
                         limit |-> rate_limits[acct][period],
                         current_count |-> 0, result |-> "-"]]
        /\ UNCHANGED <<environ, catalog, CURRENT_TIER, ttl_sets, incr_log, db,
                       svc, redis, now, t0, acct, nreq, faults, rl, events,
                       req, g, resp>>

\* line 165: current_count = self.redis_client.incr(window_key); the worker
\* that gets a count other than 1 returns at line 171
WorkerIncr(w) ==
    LET me == procs[w]
        r1 == redis_incr(redis, me.window_key)
        current_count == r1[me.window_key].n
        sofar == IF me.window_key \in DOMAIN incr_log
                 THEN incr_log[me.window_key]
                 ELSE [base |-> 0, seen |-> <<>>, by |-> <<>>]
    IN
    /\ me.pc = "incr"
    /\ redis' = r1
    /\ incr_log' = [k \in DOMAIN incr_log \cup {me.window_key} |->
                       IF k = me.window_key
                       THEN [sofar EXCEPT
                                !.seen = Append(@, current_count),
                                !.by = Append(@, w)]
                       ELSE incr_log[k]]
    /\ procs' = [procs EXCEPT ![w] =
                    [me EXCEPT
                        !.current_count = current_count,
                        !.pc = IF NeedsExpire(current_count) THEN "expire"
                               ELSE "done",
                        !.result = IF NeedsExpire(current_count) THEN "-"
                                   ELSE IF current_count <= me.limit
                                   THEN "allowed" ELSE "denied"]]
    /\ UNCHANGED <<environ, catalog, CURRENT_TIER, ttl_sets, db, svc, now, t0,
                   acct, nreq, faults, rl, events, req, g, resp>>

\* lines 169-171: self.redis_client.expire(window_key, ttl), then return
WorkerExpire(w) ==
    LET me == procs[w]
        sofar == IF me.window_key \in DOMAIN ttl_sets
                 THEN ttl_sets[me.window_key] ELSE <<>>
        cmd == [by |-> w, current_count |-> me.current_count,
                ttl |-> me.ttl, at |-> now,
                n |-> Count(redis, me.window_key)]
    IN
    /\ me.pc = "expire"
    /\ redis' = redis_expire(redis, me.window_key, me.ttl, now)
    /\ ttl_sets' = [k \in DOMAIN ttl_sets \cup {me.window_key} |->
                       IF k = me.window_key THEN Append(sofar, cmd)
                       ELSE ttl_sets[k]]
    /\ procs' = [procs EXCEPT ![w] =
                    [me EXCEPT !.pc = "done",
                               !.result = IF me.current_count <= me.limit
                                          THEN "allowed" ELSE "denied"]]
    /\ UNCHANGED <<environ, catalog, CURRENT_TIER, incr_log, db, svc, now, t0,
                   acct, nreq, faults, rl, events, req, g, resp>>

\* the clock advances; expired keys leave the store, and their history ends
WorkerTick ==
    /\ now + TickStep <= t0 + MaxElapsed
    /\ now' = now + TickStep
    /\ redis' = redis_at(redis, now')
    /\ ttl_sets' = [k \in DOMAIN ttl_sets \cap DOMAIN redis' |-> ttl_sets[k]]
    /\ incr_log' = [k \in DOMAIN incr_log \cap DOMAIN redis' |-> incr_log[k]]
    /\ UNCHANGED <<environ, catalog, CURRENT_TIER, procs, db, svc, t0, acct,
                   nreq, faults, rl, events, req, g, resp>>

NextWorkers ==
    \/ \E w \in Workers : WorkerStart(w)
    \/ \E w \in Workers : WorkerIncr(w)
    \/ \E w \in Workers : WorkerExpire(w)
    \/ WorkerTick

SpecWorkers == InitWorkers /\ [][NextWorkers]_vars

(***************************************************************************)
(* SpecCatalog: the service of a process whose environment may override    *)
(* one limit of the catalog, called for accounts of every tier that own    *)
(* nothing, one entity of each class, or far more than any limit.          *)
(***************************************************************************)
CatalogOwned ==
    {NoEntities, [c \in Classes |-> 1], [c \in Classes |-> Huge]}

CatalogStores ==
    {[users |-> ("u1" :> t), owned |-> ("u1" :> o)] :
        t \in StoredTiers, o \in CatalogOwned}

InitCatalog ==
    /\ environ \in Environments
    /\ catalog = LoadCatalog(environ)
    /\ CURRENT_TIER = "free"
    /\ db \in CatalogStores
    /\ procs = EmptyMap
    /\ ttl_sets = EmptyMap
    /\ incr_log = EmptyMap
    /\ svc = NoCall
    /\ redis = EmptyMap
    /\ now = 0
    /\ t0 = 0
    /\ acct = "free"
    /\ nreq = 0
    /\ faults = 0
    /\ rl = NoCall
    /\ events = EmptyMap
    /\ req = IdleRequest
    /\ g = EmptyMap
    /\ resp = NoResponse

\* a caller evaluates can_perform_action(user_id, action) in that process
CallCanPerformConfigured ==
    \E user_id \in UserIds, action \in KnownActions \cup {"archive_intern"},
       dbOk \in BOOLEAN :
        /\ svc = NoCall
        /\ svc' = [op |-> "can_perform_action", user_id |-> user_id,
                   action |-> action, file_size |-> 0,
                   out |-> can_perform_action_on(catalog, db, user_id,
                                                 action, 0, dbOk)]
        /\ UNCHANGED <<aux, db, redis, now, t0, acct, nreq, faults, rl,
                       events, req, g, resp>>

NextCatalog == CallCanPerformConfigured

SpecCatalog == InitCatalog /\ [][NextCatalog]_vars

(***************************************************************************)
(* SpecExpiry: the workers of SpecWorkers with a counter store that may    *)
(* fail, at most MaxFaults times, when a worker sends EXPIRE: the call     *)
(* raises, the `except` of _check_rate_limit logs the error and the        *)
(* request is admitted.  Time goes on for ever: besides the ticks of the   *)
(* clock, the clock may run on to the moment the next key expires.  Every  *)
(* worker that is inside _check_rate_limit takes its next step, and time   *)
(* passes, eventually.                                                     *)
(***************************************************************************)
\* lines 169, 173-175: self.redis_client.expire raises; the key keeps its
\* count and gets no time to live, and _check_rate_limit returns True
WorkerExpireRaises(w) ==
    LET me == procs[w] IN
    /\ me.pc = "expire"
    /\ faults < MaxFaults
    /\ faults' = faults + 1
    /\ procs' = [procs EXCEPT ![w] =
                    [me EXCEPT !.pc = "done", !.result = "allowed"]]
    /\ UNCHANGED <<environ, catalog, CURRENT_TIER, ttl_sets, incr_log, db,
                   svc, redis, now, t0, acct, nreq, rl, events, req, g,
                   resp>>

\* the keys of the store that carry a time to live
Volatile(r) == {k \in DOMAIN r : r[k].volatile}

\* the moment the next key expires
NextExpiry(r) ==
    CHOOSE t \in {r[k].exp : k \in Volatile(r)} :
        \A k \in Volatile(r) : t <= r[k].exp

\* the clock runs on to the moment the next key expires; the store drops it
Elapse ==
    /\ Volatile(redis) /= {}
    /\ now' = IF NextExpiry(redis) > now THEN NextExpiry(redis) ELSE now
    /\ redis' = redis_at(redis, now')
    /\ ttl_sets' = [k \in DOMAIN ttl_sets \cap DOMAIN redis' |-> ttl_sets[k]]
    /\ incr_log' = [k \in DOMAIN incr_log \cap DOMAIN redis' |-> incr_log[k]]
    /\ UNCHANGED <<environ, catalog, CURRENT_TIER, procs, db, svc, t0, acct,
                   nreq, faults, rl, events, req, g, resp>>

\* the next step of a worker that is inside _check_rate_limit
WorkerStep(w) == WorkerIncr(w) \/ WorkerExpire(w) \/ WorkerExpireRaises(w)

\* the workers that serve a request here; the others stay idle
ExpiryWorkers == 1..(MaxWorkers - 1)

NextExpiring ==
    \/ \E w \in ExpiryWorkers : WorkerStart(w)
    \/ \E w \in ExpiryWorkers : WorkerIncr(w)
    \/ \E w \in ExpiryWorkers : WorkerExpire(w)
    \/ \E w \in ExpiryWorkers : WorkerExpireRaises(w)
    \/ WorkerTick
    \/ Elapse

SpecExpiry ==
    /\ InitWorkers
    /\ [][NextExpiring]_vars
    /\ \A w \in ExpiryWorkers : WF_vars(WorkerStep(w))
    /\ WF_vars(WorkerTick)
    /\ WF_vars(Elapse)

(***************************************************************************)
(* Claims about the entitlement engine (SpecService).                      *)
(***************************************************************************)
\* the create-actions, each with the TierLimits field that bounds it and the
\* entity classes whose rows it counts
CreateActions ==
    {[action |-> "create_intern", limit |-> "interns",
      classes |-> {"interns_recent", "interns_old"}],
     [action |-> "create_case", limit |-> "cases",
      classes |-> {"cases_recent", "cases_old"}],
     [action |-> "create_custom_competency", limit |-> "custom_competencies",
      classes |-> {"custom_competencies"}]}

RECURSIVE SumOver(_, _)
SumOver(o, S) ==
    IF S = {} THEN 0
    ELSE LET c == CHOOSE x \in S : TRUE IN o[c] + SumOver(o, S \ {c})

\* the last call was can_perform_action on the existing account and returned
CanPerformReturned ==
    /\ svc.op = "can_perform_action"
    /\ svc.user_id \in DOMAIN db.users
    /\ svc.out.kind = "return"

\* C1: for create_intern, create_case and create_custom_competency and a tier
\* whose limit N for the matching dimension is not -1, can_perform_action
\* returns (False, message) when the account owns N or more entities in
\* total and (True, ...) when it owns N - 1.
C1_LimitBoundary ==
    CanPerformReturned =>
        \A ca \in CreateActions :
            svc.action = ca.action =>
                LET N == TIER_LIMITS[TierOrFree(db.users[svc.user_id])][ca.limit]
                    total == SumOver(db.owned[svc.user_id], ca.classes)
                IN N /= -1 =>
                    /\ total >= N => svc.out.value[1] = FALSE
                    /\ total = N - 1 => svc.out.value[1] = TRUE

\* a Free account owning exactly 5 interns, all of them older than 30 days,
\* was refused create_intern
C1_Witness ==
    /\ CanPerformReturned
    /\ svc.action = "create_intern"
    /\ db.users[svc.user_id] = "free"
    /\ db.owned[svc.user_id].interns_old = TIER_LIMITS.free.interns
    /\ db.owned[svc.user_id].interns_recent = 0
    /\ svc.out.value[1] = FALSE
    /\ svc.out.value[2].why = "interns"

(***************************************************************************)
(* Claims about the rate limiter (SpecRate).                               *)
(***************************************************************************)
RateCalled == rl.op = "_apply_rate_limiting"

\* the hour and day buckets of the account had room when the last request
\* reached the limiter
HourAndDayRoom ==
    /\ Count(rl.before, WindowKey("u1", "requests_per_hour", rl.at))
          < rate_limits[acct].requests_per_hour
    /\ Count(rl.before, WindowKey("u1", "requests_per_day", rl.at))
          < rate_limits[acct].requests_per_day

\* C3 as stated: within one minute bucket the first K requests are admitted
\* and every later one is denied with retry_after <= 60, whatever the hour
\* and day buckets hold.
C3_AsStated ==
    (RateCalled /\ rate_limits[acct].requests_per_minute /= -1) =>
        LET K == rate_limits[acct].requests_per_minute IN
        /\ rl.seq <= K => rl.result.allowed
        /\ rl.seq > K =>
              (~rl.result.allowed /\ rl.result.retry_after <= 60)

\* C3 (amended): with a working counter store and a per-minute limit K, the
\* requests after the K-th of a minute bucket are denied with
\* retry_after <= 60, and each of the first K requests of a minute bucket -
\* the first one of the next bucket included - is admitted provided the hour
\* and day buckets are below their limits when it arrives.
C3_MinuteLimit ==
    (RateCalled /\ rate_limits[acct].requests_per_minute /= -1) =>
        LET K == rate_limits[acct].requests_per_minute IN
        /\ (rl.seq <= K /\ HourAndDayRoom) => rl.result.allowed
        /\ rl.seq > K =>
              (~rl.result.allowed /\ rl.result.retry_after <= 60)

\* the minute bucket the clock started in overflowed (its key is still in
\* the store) and the first request of the next minute bucket was admitted
C3_Witness ==
    /\ RateCalled
    /\ rate_limits[acct].requests_per_minute /= -1
    /\ ~SameMinute(rl.at, t0)
    /\ rl.seq = 1
    /\ rl.result.allowed
    /\ Count(redis, WindowKey("u1", "requests_per_minute", t0))
          > rate_limits[acct].requests_per_minute

\* C4: for an Enterprise account the rate limiter admits every request and
\* issues no command to the counter store, whose keys stay as they were.
C4_EnterpriseUntouched ==
    (RateCalled /\ acct = "enterprise") =>
        /\ rl.result.allowed
        /\ rl.ops = <<>>
        /\ rl.at = now => redis = rl.before

\* an Enterprise account issued more requests in one minute than the Free
\* per-minute limit while the store held huge counters for its buckets
C4_Witness ==
    /\ RateCalled
    /\ acct = "enterprise"
    /\ rl.seq > rate_limits.free.requests_per_minute
    /\ rl.at = now
    /\ Count(redis, WindowKey("u1", "requests_per_hour", now)) = Huge
    /\ rl.result.allowed

(***************************************************************************)
(* Claims about the unlimited sentinel (SpecUnlimited).                    *)
(***************************************************************************)
\* the TierLimits field whose test produced a denial of can_perform_action
DenialLimit(limits, why) ==
    CASE why = "interns" -> limits.interns
      [] why = "cases" -> limits.cases
      [] why = "resources" -> limits.resources
      [] why = "storage" -> limits.storage_bytes
      [] why = "sessions" -> limits.sessions
      [] why = "custom_competencies" -> limits.custom_competencies
      [] why = "ai" -> limits.ai_requests_per_month
      [] OTHER -> 0

\* C2: a limit equal to -1 never causes a denial or an exceeded-limit entry,
\* whatever the usage: no dimension listed in validate_tier_limits'
\* exceeded_limits has limit -1, a denial of can_perform_action never comes
\* from a dimension whose limit is -1, and a denial of the rate limiter never
\* names a period whose limit is -1.
C2_UnlimitedNeverDenies ==
    /\ (svc.op = "validate_tier_limits" /\ svc.out.kind = "return") =>
          \A i \in 1..Len(svc.out.value.exceeded_limits) :
              svc.out.value.limits[svc.out.value.exceeded_limits[i]] /= -1
    /\ (CanPerformReturned /\ ~svc.out.value[1]) =>
          DenialLimit(TIER_LIMITS[TierOrFree(db.users[svc.user_id])],
                      svc.out.value[2].why) /= -1
    /\ (RateCalled /\ ~rl.result.allowed) =>
          rate_limits[acct][rl.result.message] /= -1

\* a Premium account holding Huge resources (its resources limit is -1) and
\* nothing else was allowed to upload one more
C2_Witness ==
    /\ CanPerformReturned
    /\ svc.action = "upload_resource"
    /\ db.users[svc.user_id] = "premium"
    /\ db.owned[svc.user_id].resources_old = Huge
    /\ db.owned[svc.user_id].storage = 0
    /\ svc.out.value[1] = TRUE

(***************************************************************************)
(* Claims about the request gate (SpecGate).                               *)
(***************************************************************************)
\* before_request has run for the request in flight
GateRan == req.pc \in {"handler", "after", "done"}

NonPublic == ~_is_public_route(req.request)

\* before_request answered the request itself with this status
GateAnswered(status) ==
    /\ req.gate.kind = "return"
    /\ req.gate.value /= None
    /\ req.gate.value.status = status

\* the route handler is running or has run
Dispatched == req.pc = "handler" \/ req.dispatched

Called(name) == \E i \in 1..Len(req.calls) : req.calls[i] = name

\* C5: rate limiting fails open: the check of a granularity whose increment
\* or expire raised admits, so a 429 never names such a granularity - it
\* names one whose counter, read from a working store, is above the limit.
C5_RateFailsOpen ==
    GateRan =>
        /\ \A p \in req.rate.failed :
              req.rate.result.allowed \/ req.rate.result.message /= p
        /\ GateAnswered(429) =>
              LET p == req.gate.value.body.message IN
              /\ p \notin req.rate.failed
              /\ Count(redis, WindowKey(req.request.token, p, now))
                    > rate_limits[g.current_tier][p]

\* the increment of the minute bucket raised for a request of an account
\* whose minute bucket was full, and the request reached its handler
C5_Witness ==
    /\ req.pc = "done"
    /\ req.rate.failed = {"requests_per_minute"}
    /\ rate_limits[acct].requests_per_minute /= -1
    /\ Count(redis, WindowKey("u1", "requests_per_minute", now))
          >= rate_limits[acct].requests_per_minute
    /\ req.dispatched
    /\ resp.by = "handler"

\* C6: entitlement checking fails closed: when the record store fails while
\* the gate evaluates can_perform_action, the request is answered with a 5xx
\* status and its handler is never dispatched.
C6_EntitlementFailsClosed ==
    (GateRan /\ req.db_fault = "action" /\ Called("can_perform_action")) =>
        /\ req.gate.kind = "raise"
        /\ ~Dispatched
        /\ resp.status >= 500

\* the record store failed under can_perform_action and the finished request
\* carries Flask's 500 without having been dispatched
C6_Witness ==
    /\ req.pc = "done"
    /\ req.db_fault = "action"
    /\ Called("can_perform_action")
    /\ resp.status = 500
    /\ resp.by = "flask"
    /\ ~req.dispatched

\* C7: the rate-limit check runs before the entitlement check; a rate-denied
\* request is answered 429 with retry_after, without can_perform_action
\* evaluated and without the handler; an entitlement-denied request is
\* answered 403 without the handler; the handler of an identified account's
\* request is dispatched only if both checks admitted.
C7_GateOrder ==
    GateRan =>
        /\ \A i \in 1..Len(req.calls) :
              req.calls[i] \in {"_validate_action_limits", "can_perform_action"}
              => /\ \E j \in 1..(i - 1) : req.calls[j] = "_apply_rate_limiting"
                 /\ req.rate.result.allowed
        /\ ~req.rate.result.allowed =>
              /\ GateAnswered(429)
              /\ req.gate.value.body.retry_after
                    = _get_retry_after(req.rate.result.message)
              /\ ~Called("_validate_action_limits")
              /\ ~Called("can_perform_action")
              /\ ~Dispatched
        /\ req.entitled = "denied" => (GateAnswered(403) /\ ~Dispatched)
        /\ (Dispatched /\ "current_tier" \in DOMAIN g) =>
              /\ req.calls[1] = "_apply_rate_limiting"
              /\ req.calls[2] = "_validate_action_limits"
              /\ req.rate.result.allowed
              /\ req.entitled = "allowed"

\* a request was rate-denied: it finished with 429 after the rate limiter
\* alone had run
C7_Witness ==
    /\ req.pc = "done"
    /\ resp.status = 429
    /\ resp.by = "gate"
    /\ req.calls = <<"_apply_rate_limiting">>
    /\ ~req.dispatched

\* the usage events recorded for a user on the current day
UsageEvents(ev, user_id) ==
    IF MetricsKey(user_id, now) \in DOMAIN ev
    THEN Len(ev[MetricsKey(user_id, now)].items)
    ELSE 0

\* C8 as stated: a finished non-public request whose identity was resolved
\* left exactly one more usage event, whether it was dispatched, answered
\* 429, 403 or 404, provided the counter store accepted the write.
C8_OneEventPerRequest ==
    (/\ req.pc = "done"
     /\ NonPublic
     /\ req.request.token \in UserIds
     /\ req.metrics_fault = "none"
     /\ \/ req.dispatched
        \/ GateAnswered(429)
        \/ GateAnswered(403)
        \/ GateAnswered(404))
    => UsageEvents(events, req.request.token)
          = UsageEvents(req.events_before, req.request.token) + 1

\* C9: a failure while recording the usage event never changes the response:
\* after_request returns the response it was given and raises nothing.
C9_MeteringNeverAlters ==
    (req.pc = "done" /\ req.metrics_error /= "none") =>
        /\ req.after.kind = "return"
        /\ req.after.value = req.resp_in
        /\ resp = req.resp_in

\* the counter store refused the lpush of a dispatched request and the
\* handler's response went out as it was
C9_Witness ==
    /\ req.pc = "done"
    /\ req.metrics_fault = "lpush"
    /\ req.metrics_error = "RedisError"
    /\ req.dispatched
    /\ resp.by = "handler"
    /\ events = req.events_before

\* C10: a non-public request whose credential cannot be resolved passes the
\* gate untouched (no check run, no counter changed, no response by the
\* gate); one whose identity resolves to no account record is answered 404
\* before any rate-limit increment or entitlement check.
C10_Identified ==
    (GateRan /\ NonPublic) =>
        /\ req.request.token = "invalid" =>
              /\ req.gate = Return(None)
              /\ req.calls = <<>>
              /\ redis = req.redis_before
              /\ g = EmptyMap
        /\ (/\ req.request.token \in UserIds
            /\ req.request.token \notin DOMAIN db.users
            /\ req.db_fault /= "user") =>
              /\ GateAnswered(404)
              /\ req.calls = <<>>
              /\ redis = req.redis_before
              /\ ~Dispatched

\* a request of an identity without account record finished with the gate's
\* 404 while the account's full buckets stayed as they were
C10_Witness ==
    /\ req.pc = "done"
    /\ NonPublic
    /\ req.request.token = "ghost"
    /\ resp.status = 404
    /\ resp.by = "gate"
    /\ redis = req.redis_before
    /\ redis /= EmptyMap

\* the path of the request in flight starts with an entry of the allow-list
OnAllowList ==
    \E route \in public_routes : StartsWith(req.request.path, route)

\* C11: a request whose path is on the public allow-list skips every check
\* of the gate: before_request returns None, no check is run, no counter
\* changes and flask.g stays empty, whatever the caller, the account's tier
\* and usage and the counters.
C11_PublicSkipsChecks ==
    (GateRan /\ OnAllowList) =>
        /\ req.gate = Return(None)
        /\ req.calls = <<>>
        /\ req.entitled = "skipped"
        /\ redis = req.redis_before
        /\ g = EmptyMap
        /\ resp.by /= "gate"

\* the account's buckets are full and its entities at their limits, and its
\* request to a public path was dispatched
C11_Witness ==
    /\ req.pc = "done"
    /\ OnAllowList
    /\ req.request.token = "u1"
    /\ rate_limits[acct].requests_per_minute /= -1
    /\ Count(redis, WindowKey("u1", "requests_per_minute", now))
          >= rate_limits[acct].requests_per_minute
    /\ db.owned["u1"] /= NoEntities
    /\ req.dispatched
    /\ resp.by = "handler"

(***************************************************************************)
(* Claims about the advice of the service (SpecAdvice).                    *)
(***************************************************************************)
ValidateReturned ==
    svc.op = "validate_tier_limits" /\ svc.out.kind = "return"

\* the account's tier limits and its 30-day usage, read from the record store
LimitsOf(user_id) == TIER_LIMITS[TierOrFree(db.users[user_id])]

UsageOf(user_id) ==
    LET o == OwnedBy(db, user_id) IN
    [interns |-> o.interns_recent, cases |-> o.cases_recent,
     resources |-> o.resources_recent, sessions |-> o.sessions_window,
     storage_bytes |-> o.storage,
     custom_competencies |-> o.custom_competencies]

Dimensions == {LimitNames[i] : i \in 1..Len(LimitNames)}

Members(seq) == {seq[i] : i \in 1..Len(seq)}

\* C12: validate_tier_limits lists a dimension in exceeded_limits exactly when
\* its limit is not -1 and the usage is at or above the limit; is_valid says
\* that the list is empty and upgrade_required that it is not, so exactly one
\* of the two flags is true.
C12_ExceededExactly ==
    ValidateReturned =>
        LET v == svc.out.value
            limits == LimitsOf(svc.user_id)
            usage == UsageOf(svc.user_id)
        IN
        /\ \A n \in Dimensions :
              n \in Members(v.exceeded_limits)
                  <=> (limits[n] /= -1 /\ usage[n] >= limits[n])
        /\ v.is_valid <=> (v.exceeded_limits = <<>>)
        /\ v.upgrade_required <=> (v.exceeded_limits /= <<>>)
        /\ v.is_valid /= v.upgrade_required

\* a Premium account at its intern limit that holds resources without limit
C12_Witness ==
    /\ ValidateReturned
    /\ db.users[svc.user_id] = "premium"
    /\ svc.out.value.exceeded_limits = <<"interns">>
    /\ UsageOf(svc.user_id).resources = Huge
    /\ svc.out.value.upgrade_required
    /\ ~svc.out.value.is_valid

\* the dimensions a recommendation with the given text is about
About(recommendations, text) ==
    {recommendations[i].about :
        i \in {j \in 1..Len(recommendations) : recommendations[j].text = text}}

\* the account uses only its resource-count allowance, and that to at least
\* 80% of it without reaching it
OnlyNearingResources(user_id) ==
    LET limits == LimitsOf(user_id)
        usage == UsageOf(user_id)
    IN
    /\ limits.resources /= -1
    /\ 5 * usage.resources >= 4 * limits.resources
    /\ usage.resources < limits.resources
    /\ \A n \in Dimensions \ {"resources"} : usage[n] = 0

\* C13: validate_tier_limits emits a "nearing limit" recommendation for a
\* dimension exactly when the dimension is not exceeded, its limit is not -1
\* and the usage is at least 0.8 times the limit; each dimension contributes
\* at most one recommendation; and the recommendation is advisory: an account
\* whose only finding is that it nears its resource-count limit gets
\* is_valid = true, upgrade_required = false and a non-empty list.
C13_NearingIsAdvisory ==
    ValidateReturned =>
        LET v == svc.out.value
            limits == LimitsOf(svc.user_id)
            usage == UsageOf(svc.user_id)
        IN
        /\ \A n \in Dimensions :
              n \in About(v.recommendations, "nearing_limit")
                  <=> /\ n \notin Members(v.exceeded_limits)
                      /\ limits[n] /= -1
                      /\ 5 * usage[n] >= 4 * limits[n]
        /\ \A i, j \in 1..Len(v.recommendations) :
              v.recommendations[i].about = v.recommendations[j].about => i = j
        /\ OnlyNearingResources(svc.user_id) =>
              /\ v.is_valid
              /\ ~v.upgrade_required
              /\ v.recommendations /= <<>>

\* the part of C13 that the code keeps: the rule of the nearing-limit
\* recommendations, and one recommendation per dimension at most
C13_NearingRule ==
    ValidateReturned =>
        LET v == svc.out.value
            limits == LimitsOf(svc.user_id)
            usage == UsageOf(svc.user_id)
        IN
        /\ \A n \in Dimensions :
              n \in About(v.recommendations, "nearing_limit")
                  <=> /\ n \notin Members(v.exceeded_limits)
                      /\ limits[n] /= -1
                      /\ 5 * usage[n] >= 4 * limits[n]
        /\ \A i, j \in 1..Len(v.recommendations) :
              v.recommendations[i].about = v.recommendations[j].about => i = j

RecommendReturned ==
    svc.op = "get_upgrade_recommendations" /\ svc.out.kind = "return"

\* the gate answered the request with 403
GateRefused == svc.op = "before_request" /\ resp.status = 403

\* null, or strictly above the current tier; always null for Enterprise
NullOrAbove(suggested_tier, current_tier) ==
    /\ suggested_tier /= "None" =>
          /\ suggested_tier \in MentorshipTier
          /\ tier_hierarchy[suggested_tier] > tier_hierarchy[current_tier]
    /\ current_tier = "enterprise" => suggested_tier = "None"

RecommendRan ==
    /\ svc.op = "get_upgrade_recommendations"
    /\ svc.user_id \in DOMAIN db.users
    /\ svc.out /= Raise("StorageError")

\* upgrade_required is true or some usage percentage is above 80
UpgradeIndicated(user_id) ==
    LET limits == LimitsOf(user_id)
        usage == UsageOf(user_id)
    IN \E n \in Dimensions :
          /\ limits[n] /= -1
          /\ \/ usage[n] >= limits[n]
             \/ 5 * usage[n] > 4 * limits[n]

\* C15: for a Free or Premium account get_upgrade_recommendations produces a
\* non-null suggested tier, with benefits and pricing, whenever
\* upgrade_required is true or the usage percentage of some dimension is
\* above 80, and no suggestion when neither holds.
C15_SuggestsWhenIndicated ==
    (RecommendRan /\ TierOrFree(db.users[svc.user_id]) /= "enterprise") =>
        IF UpgradeIndicated(svc.user_id)
        THEN /\ svc.out.kind = "return"
             /\ svc.out.value.suggested_tier /= "None"
             /\ svc.out.value.benefits /= "none"
             /\ svc.out.value.pricing /= <<>>
        ELSE /\ svc.out.kind = "return"
             /\ svc.out.value.suggested_tier = "None"

(***************************************************************************)
(* Claims about uploads (SpecService).                                     *)
(***************************************************************************)
UploadDecided ==
    /\ svc.op = "can_perform_action"
    /\ svc.action = "upload_resource"
    /\ svc.out.kind = "return"
    /\ svc.user_id \in DOMAIN db.users

\* the account's resource count is at or above a finite limit
CountAtLimit(user_id) ==
    LET o == OwnedBy(db, user_id) IN
    /\ LimitsOf(user_id).resources /= -1
    /\ o.resources_recent + o.resources_old >= LimitsOf(user_id).resources

\* the stored bytes plus the upload pass a finite storage limit
StorageOverCap(user_id, file_size) ==
    /\ LimitsOf(user_id).storage_bytes /= -1
    /\ OwnedBy(db, user_id).storage + file_size
           > LimitsOf(user_id).storage_bytes

\* C16: can_perform_action('upload_resource', file_size) denies exactly when
\* the resource limit is not -1 and the total resource count is at or above
\* it, or the storage limit is not -1 and the stored bytes plus file_size are
\* above it; an upload that pushes storage over the cap is denied citing
\* storage even when the resource count is below its limit.
C16_UploadDenial ==
    UploadDecided =>
        /\ ~svc.out.value[1]
              <=> \/ CountAtLimit(svc.user_id)
                  \/ StorageOverCap(svc.user_id, svc.file_size)
        /\ CountAtLimit(svc.user_id) => svc.out.value[2].why = "resources"
        /\ (StorageOverCap(svc.user_id, svc.file_size)
               /\ ~CountAtLimit(svc.user_id))
              => svc.out.value[2].why = "storage"

\* a Free account at its 1 GiB cap, one resource short of its count limit,
\* uploads 1 GiB and is denied for storage
C16_Witness ==
    /\ UploadDecided
    /\ db.users[svc.user_id] = "free"
    /\ OwnedBy(db, svc.user_id).storage = TIER_LIMITS.free.storage_bytes
    /\ svc.file_size = TIER_LIMITS.free.storage_bytes
    /\ OwnedBy(db, svc.user_id).resources_recent
           = TIER_LIMITS.free.resources - 1
    /\ OwnedBy(db, svc.user_id).resources_old = 0
    /\ ~svc.out.value[1]
    /\ svc.out.value[2].why = "storage"

(***************************************************************************)
(* Claims about the catalog and the decorators (SpecGuards).               *)
(***************************************************************************)
\* a <= b among limits, with -1 (unlimited) above every number
LimitLeq(a, b) == b = -1 \/ (a /= -1 /\ a <= b)

Monotone(cat) ==
    /\ \A f \in NumericLimits :
          /\ LimitLeq(cat.free[f], cat.premium[f])
          /\ LimitLeq(cat.premium[f], cat.enterprise[f])
    /\ \A f \in FeatureFlags :
          /\ cat.free[f] => cat.premium[f]
          /\ cat.premium[f] => cat.enterprise[f]

\* C17: the tier catalog is monotone - on every numeric dimension
\* limit(Free) <= limit(Premium) <= limit(Enterprise) with -1 as the maximum,
\* and every feature flag enabled for a tier is enabled for the tiers above
\* it; every tier has a limits entry; no operation mutates the catalog.
C17_CatalogMonotone ==
    /\ DOMAIN catalog = MentorshipTier
    /\ catalog = LoadCatalog(environ)
    /\ Monotone(catalog)

\* the part of C17 that the code keeps: every tier has an entry, no operation
\* changes the catalog, and the catalog built from the defaults is monotone
C17_DefaultCatalog ==
    /\ DOMAIN catalog = MentorshipTier
    /\ catalog = LoadCatalog(environ)
    /\ environ = EmptyMap => Monotone(catalog)

RequireTierCalled == svc.op = "require_tier"

\* the gate identified the caller and loaded the account's tier
CallerIdentified == "current_tier" \in DOMAIN g

\* C18: a handler wrapped with require_tier(T) runs exactly when the caller's
\* current tier is at or above T in the order Free < Premium < Enterprise;
\* otherwise the handler is not called and the result is a 403 that carries
\* current_tier, required_tier = T and upgrade_required = true.
C18_RequireTier ==
    (RequireTierCalled /\ CallerIdentified) =>
        LET T == svc.arg
            own == TierOrFree(db.users[g.current_user_id])
        IN
        /\ svc.called <=> tier_hierarchy[own] >= tier_hierarchy[T]
        /\ svc.called => resp = HandlerResponse
        /\ ~svc.called =>
              /\ resp.status = 403
              /\ resp.body.current_tier = own
              /\ resp.body.required_tier = T
              /\ resp.body.upgrade_required

\* a Premium caller reaches a handler that requires Premium
C18_Witness ==
    /\ RequireTierCalled
    /\ CallerIdentified
    /\ db.users[g.current_user_id] = "premium"
    /\ svc.arg = "premium"
    /\ svc.called
    /\ resp = HandlerResponse

RequireFeatureCalled == svc.op = "require_feature"

\* what the catalog says about a feature for a tier
EnabledFor(tier, feature_name) ==
    LET features == get_feature_availability(catalog, tier) IN
    feature_name \in DOMAIN features /\ features[feature_name]

\* C19: a handler wrapped with require_feature(F) runs exactly when F is
\* enabled for the calling account's own current tier, the tier the rejection
\* reports as current_tier; otherwise the handler is not called and the
\* result is a 403 with upgrade_required = true.  The decision depends
\* neither on a process-wide tier setting nor on other accounts.
C19_RequireFeature ==
    (RequireFeatureCalled /\ CallerIdentified) =>
        LET own == TierOrFree(db.users[g.current_user_id]) IN
        /\ svc.called <=> EnabledFor(own, svc.arg)
        /\ svc.called => resp = HandlerResponse
        /\ ~svc.called =>
              /\ resp.status = 403
              /\ resp.body.current_tier = own
              /\ resp.body.upgrade_required

\* what the code does instead: the decision follows the process-wide tier
C19_FollowsProcessTier ==
    (RequireFeatureCalled /\ CallerIdentified) =>
        /\ svc.called <=> EnabledFor(CURRENT_TIER, svc.arg)
        /\ ~svc.called =>
              /\ resp.status = 403
              /\ resp.body.current_tier
                     = TierOrFree(db.users[g.current_user_id])
              /\ resp.body.upgrade_required

(***************************************************************************)
(* Claims about concurrent workers (SpecWorkers).                          *)
(***************************************************************************)
\* the EXPIRE commands applied to a key since it was created
ExpiresOf(key) == IF key \in DOMAIN ttl_sets THEN ttl_sets[key] ELSE <<>>

\* the workers that hold a count from a key and have yet to send its EXPIRE
PendingExpire(key) ==
    {w \in Workers : procs[w].pc = "expire" /\ procs[w].window_key = key}

\* C20: under any interleaving of concurrent requests the expiry of a
\* rate-limit bucket (TTL = the bucket's width: 60 s, 3600 s, 86400 s) is set
\* exactly once during the bucket's lifetime, by the request whose atomic
\* increment returned 1, and no later increment on the bucket sets or resets
\* it.
C20_ExpireOnce ==
    \A key \in DOMAIN redis :
        LET sets == ExpiresOf(key) IN
        /\ Len(sets) + Cardinality(PendingExpire(key)) = 1
        /\ \A w \in PendingExpire(key) : procs[w].current_count = 1
        /\ \A i \in 1..Len(sets) :
              /\ sets[i].current_count = 1
              /\ sets[i].ttl = WindowTTL(key[2])
        /\ redis[key].volatile <=> Len(sets) = 1
        /\ redis[key].volatile =>
              redis[key].exp = sets[1].at + WindowTTL(key[2])

\* two workers hit the same minute bucket; the second one's increment came
\* before the first one's EXPIRE, a clock step after the bucket began, and
\* the bucket carries one expiry
C20_Witness ==
    \E key \in DOMAIN redis :
        /\ key[2] = "requests_per_minute"
        /\ redis[key].n >= 2
        /\ redis[key].volatile
        /\ Len(ExpiresOf(key)) = 1
        /\ \E w \in Workers :
              /\ procs[w].pc = "done"
              /\ procs[w].window_key = key
              /\ procs[w].current_count = 2
        /\ ExpiresOf(key)[1].by \in Workers
        /\ procs[ExpiresOf(key)[1].by].pc = "done"
        /\ ExpiresOf(key)[1].n >= 2
        /\ ExpiresOf(key)[1].at > key[3]

\* the counts INCR returned for a key since it was created
HitsOf(key) ==
    IF key \in DOMAIN incr_log THEN incr_log[key]
    ELSE [base |-> 0, seen |-> <<>>, by |-> <<>>]

\* the workers that hit the key since it was created and were admitted
AdmittedOn(key) ==
    {w \in Workers :
        /\ \E i \in 1..Len(HitsOf(key).by) : HitsOf(key).by[i] = w
        /\ procs[w].window_key = key
        /\ procs[w].result = "allowed"}

\* the workers that got a count back for the bucket named key, whether or
\* not the key they hit is still in the store
CountedOn(key) ==
    {w \in Workers :
        procs[w].pc \in {"expire", "done"} /\ procs[w].window_key = key}

\* C21 as stated: under any interleaving of concurrent requests of one
\* account in one bucket no increment is lost: each request saw a different
\* post-increment value, and so at most L_g requests are admitted per bucket
\* when the store works.
C21_AsStated ==
    \A w \in Workers :
        procs[w].pc \in {"expire", "done"} =>
            LET key == procs[w].window_key IN
            /\ \A v \in CountedOn(key) :
                  procs[v].current_count = procs[w].current_count => v = w
            /\ Cardinality({v \in CountedOn(key) :
                                procs[v].result = "allowed"})
                   <= rate_limits[acct][key[2]]

\* C21, amended: for as long as a bucket's key lives in the store no
\* increment on it is lost: the counter equals what earlier requests left
\* plus the number of requests that ran the rate check on it, each of them
\* saw a different count, and at most L_g requests are admitted on it.
C21_NoLostIncrement ==
    \A key \in DOMAIN redis :
        LET hits == HitsOf(key)
            L == rate_limits[acct][key[2]]
            room == IF hits.base >= L THEN 0 ELSE L - hits.base
        IN
        /\ redis[key].n = hits.base + Len(hits.seen)
        /\ \A i \in 1..Len(hits.seen) : hits.seen[i] = hits.base + i
        /\ \A i, j \in 1..Len(hits.by) : hits.by[i] = hits.by[j] => i = j
        /\ \A i \in 1..Len(hits.by) :
              LET w == hits.by[i] IN
              procs[w].pc = "done" /\ procs[w].window_key = key =>
                  (procs[w].result = "allowed" <=> hits.seen[i] <= L)
        /\ Cardinality(AdmittedOn(key)) <= room

\* three workers hit a minute bucket that held one request less than the
\* limit: the first is admitted, the others are denied
C21_Witness ==
    \E key \in DOMAIN redis :
        /\ key[2] = "requests_per_minute"
        /\ HitsOf(key).base = rate_limits[acct].requests_per_minute - 1
        /\ Len(HitsOf(key).seen) >= 2
        /\ Cardinality(AdmittedOn(key)) = 1
        /\ \E w \in Workers :
              /\ procs[w].window_key = key
              /\ procs[w].result = "denied"

(***************************************************************************)
(* Further claims about the rate limiter (SpecRate).                       *)
(***************************************************************************)
\* the seconds left, at time t, in the bucket of the period that t falls in
RemainingIn(period, t) ==
    WindowKey("u1", period, t)[3] + WindowTTL(period) - t

\* C22: when the rate limiter denies a request because granularity g is
\* exceeded, retry_after is the time remaining in the current bucket of g
\* (bucket end minus the request's time), not the full bucket width.
C22_RetryAfterRemaining ==
    (RateCalled /\ ~rl.result.allowed) =>
        rl.result.retry_after = RemainingIn(rl.result.message, rl.at)

\* what the code reports instead: the width of the denying bucket
C22_RetryAfterWidth ==
    (RateCalled /\ ~rl.result.allowed) =>
        rl.result.retry_after = WindowTTL(rl.result.message)

(***************************************************************************)
(* Further claims about the service (SpecService).                         *)
(***************************************************************************)
EngineOperations ==
    {"validate_tier_limits", "can_perform_action",
     "get_upgrade_recommendations", "get_user_usage_metrics"}

\* the service was called for an id without an account row, and the record
\* store answered
UnknownAccountCall ==
    /\ svc.op \in EngineOperations
    /\ svc.user_id \notin DOMAIN db.users
    /\ svc.out /= Raise("StorageError")

\* C23: validate_tier_limits, can_perform_action, get_upgrade_recommendations
\* and get_user_usage_metrics fail with a not-found error (ValueError in the
\* code) when the account id references no account; none of them returns an
\* ordinary allow/deny or validation result for an unknown account.
C23_UnknownAccountFails ==
    UnknownAccountCall => svc.out = Raise("ValueError")

\* what the code keeps of C23: the three operations other than
\* can_perform_action raise for an unknown account
C23_OthersFail ==
    (UnknownAccountCall /\ svc.op /= "can_perform_action") =>
        svc.out = Raise("ValueError")

(***************************************************************************)
(* C24.  The feature-type actions are decided by the catalog alone.        *)
(***************************************************************************)
\* a completed can_perform_action call for an existing account
FeatureCall(action) ==
    /\ svc /= NoCall
    /\ svc.op = "can_perform_action"
    /\ svc.action = action
    /\ svc.user_id \in DOMAIN db.users
    /\ svc.out.kind = "return"

\* the limits of the catalog for the caller's tier
CallerLimits == catalog[TierOrFree(db.users[svc.user_id])]

\* the same call for the same account owning nothing
SameCallNoUsage ==
    can_perform_action_on(catalog,
                          [db EXCEPT !.owned = (svc.user_id :> NoEntities)],
                          svc.user_id, svc.action, svc.file_size, TRUE)

\* C24: can_perform_action('export_report') is allowed exactly when the
\* export_reports flag of the account's tier is true, and
\* can_perform_action('use_ai') is denied exactly when the monthly AI
\* allowance of the tier is 0 (unlimited and every positive allowance are
\* allowed); either answer is the one the account would get owning nothing.
C24_FeatureByCatalog ==
    /\ FeatureCall("export_report") =>
          /\ svc.out.value[1] = CallerLimits.export_reports
          /\ svc.out = SameCallNoUsage
    /\ FeatureCall("use_ai") =>
          /\ svc.out.value[1] = (CallerLimits.ai_requests_per_month /= 0)
          /\ svc.out = SameCallNoUsage

\* use_ai is denied to an account far above every limit whose allowance an
\* environment setting made 0
C24_Witness ==
    /\ FeatureCall("use_ai")
    /\ CallerLimits.ai_requests_per_month = 0
    /\ svc.out.value[1] = FALSE
    /\ db.owned[svc.user_id].interns_recent = Huge

\* use_ai is allowed on an unlimited allowance
C24_WitnessUnlimited ==
    /\ FeatureCall("use_ai")
    /\ CallerLimits.ai_requests_per_month = -1
    /\ svc.out.value[1] = TRUE

(***************************************************************************)
(* C25.  The limiter checks minute, hour, day in that order and stops at   *)
(* the first bucket that is over its limit.                                *)
(***************************************************************************)
\* the position of a granularity in the order the limiter checks them
PeriodIndex(period) == CHOOSE i \in 1..Len(Periods) : Periods[i] = period

\* the last request was denied and the store is as that request left it
DeniedJustNow == RateCalled /\ now = rl.at /\ ~rl.result.allowed

\* the INCR commands of the last request, in the order they were issued
IncrementsIssued == SelectSeq(rl.ops, LAMBDA o : o[1] = "incr")

\* C25: a request denied at granularity g has added one to the counter of g
\* and of every granularity before g in the order minute, hour, day, and has
\* left the counters of the granularities after g alone; the INCR commands
\* were issued in that order; the granularities before g were within their
\* limit and g was over it - also when g was over it before the request.
C25_StopsAtFirstExceeded ==
    DeniedJustNow =>
        LET gi == PeriodIndex(rl.result.message)
            Key(i) == WindowKey("u1", Periods[i], rl.at)
            Limit(i) == rate_limits[acct][Periods[i]]
        IN
        /\ \A i \in 1..Len(Periods) :
              Count(redis, Key(i)) =
                  Count(rl.before, Key(i)) + (IF i <= gi THEN 1 ELSE 0)
        /\ IncrementsIssued = [i \in 1..gi |-> <<"incr", Periods[i]>>]
        /\ \A i \in 1..(gi - 1) : Count(redis, Key(i)) <= Limit(i)
        /\ Count(redis, Key(gi)) > Limit(gi)

\* a retry denied at the hour bucket, which was already over its limit:
\* the minute and hour counters grew, the day counter did not
C25_Witness ==
    /\ DeniedJustNow
    /\ rl.result.message = "requests_per_hour"
    /\ Count(rl.before, WindowKey("u1", "requests_per_hour", rl.at))
          > rate_limits[acct].requests_per_hour
    /\ Count(redis, WindowKey("u1", "requests_per_hour", rl.at))
          = Count(rl.before, WindowKey("u1", "requests_per_hour", rl.at)) + 1
    /\ Count(redis, WindowKey("u1", "requests_per_minute", rl.at))
          = Count(rl.before, WindowKey("u1", "requests_per_minute", rl.at)) + 1
    /\ Count(redis, WindowKey("u1", "requests_per_day", rl.at))
          = Count(rl.before, WindowKey("u1", "requests_per_day", rl.at))
    /\ Count(redis, WindowKey("u1", "requests_per_day", rl.at)) > 0

(***************************************************************************)
(* C26.  No mapping, no rejection.                                         *)
(***************************************************************************)
\* the entitlement step ran for a request whose (method, path) has no entry
\* in the action table
UnmappedRequestChecked ==
    /\ svc.op = "_validate_action_limits"
    /\ <<svc.request.method, svc.request.path>> \notin DOMAIN action_mapping

\* can_perform_action answered, for an existing account, about an action
\* outside the fixed set
UnknownActionAnswered ==
    /\ svc.op = "can_perform_action"
    /\ svc.action \notin KnownActions
    /\ svc.user_id \in DOMAIN db.users
    /\ svc.out.kind = "return"

\* C26: a request whose (method, path) has no entry in the action table is
\* let through by the entitlement step without a call of can_perform_action
\* (also when the record store is down), and can_perform_action called with
\* an action outside the fixed set answers (True, ...) for every existing
\* account, whatever its tier and usage.
C26_AbsentMappingPermits ==
    /\ UnmappedRequestChecked =>
          /\ svc.out = Return([allowed |-> TRUE])
          /\ svc.calls = <<>>
    /\ UnknownActionAnswered => svc.out = Permitted

\* GET on the interns path passes the entitlement step for a Free account
\* that is over its intern limit, for which the POST would be rejected
C26_Witness ==
    /\ UnmappedRequestChecked
    /\ svc.request.method = "GET"
    /\ svc.request.path = <<"/api/mentorship/interns">>
    /\ svc.out = Return([allowed |-> TRUE])
    /\ db.users["u1"] = "free"
    /\ ~can_perform_action(db, "u1", "create_intern", 0, TRUE).value[1]

\* the unknown action is permitted to an account far above a limit
C26_WitnessUnknownAction ==
    /\ UnknownActionAnswered
    /\ svc.out = Permitted
    /\ db.owned[svc.user_id].interns_old = Huge
    /\ db.users[svc.user_id] = "free"

(***************************************************************************)
(* C27.  The usage percentages of get_upgrade_recommendations.             *)
(***************************************************************************)
\* get_upgrade_recommendations ran for an existing account while the record
\* store answered
AdviceAsked ==
    /\ svc.op = "get_upgrade_recommendations"
    /\ svc.user_id \in DOMAIN db.users
    /\ svc.out /= Raise("StorageError")

\* C27: for every existing account of every tier get_upgrade_recommendations
\* completes without an arithmetic error and reports, for every dimension, a
\* usage percentage in [0, 100]: min(100, 100 * usage / limit) when the
\* dimension is not unlimited and 0 when it is - for every limit value of
\* the catalog, the limit 0 included.
C27_PercentagesDefined ==
    AdviceAsked =>
        /\ svc.out.kind = "return"
        /\ LET v == validate_tier_limits(db, svc.user_id, TRUE).value IN
           \A i \in 1..Len(LimitNames) :
              LET n == LimitNames[i]
                  p == svc.out.value.usage_percentage[n]
              IN /\ p \in 0..100
                 /\ v.limits[n] = -1 => p = 0

\* what the code keeps of C27: when no limit of the account's tier is 0 the
\* call completes and every percentage is in [0, 100], 0 when unlimited
C27_DefinedWithoutZeroLimit ==
    (AdviceAsked
        /\ \A i \in 1..Len(LimitNames) :
              validate_tier_limits(db, svc.user_id, TRUE)
                  .value.limits[LimitNames[i]] /= 0) =>
        /\ svc.out.kind = "return"
        /\ LET v == validate_tier_limits(db, svc.user_id, TRUE).value IN
           \A i \in 1..Len(LimitNames) :
              LET n == LimitNames[i]
                  p == svc.out.value.usage_percentage[n]
              IN /\ p \in 0..100
                 /\ v.limits[n] = -1 => p = 0
                 /\ v.limits[n] /= -1 =>
                       p = UsagePercentage(v.current_usage[n], v.limits[n])

(***************************************************************************)
(* C29.  A limit of 0 is exceeded at usage 0.                              *)
(***************************************************************************)
\* validate_tier_limits answered for an account the code reads as Free
FreeValidated ==
    /\ svc.op = "validate_tier_limits"
    /\ svc.out.kind = "return"
    /\ svc.user_id \in DOMAIN db.users
    /\ TierOrFree(db.users[svc.user_id]) = "free"

\* C29: under the default catalog, where Free has custom_competencies = 0,
\* validate_tier_limits answers is_valid = false and upgrade_required = true
\* with 'custom_competencies' among exceeded_limits for every Free account,
\* whatever it owns - also when it owns nothing.
C29_FreeAlwaysExceeded ==
    FreeValidated =>
        LET v == svc.out.value IN
        /\ TIER_LIMITS.free.custom_competencies = 0
        /\ ~v.is_valid
        /\ v.upgrade_required
        /\ \E i \in 1..Len(v.exceeded_limits) :
              v.exceeded_limits[i] = "custom_competencies"

\* a Free account that owns nothing is told to upgrade, and
\* custom_competencies is the only dimension listed
C29_Witness ==
    /\ FreeValidated
    /\ db.owned[svc.user_id] = NoEntities
    /\ svc.out.value.exceeded_limits = <<"custom_competencies">>
    /\ svc.out.value.upgrade_required
    /\ ~svc.out.value.is_valid

(***************************************************************************)
(* C30.  What validate_tier_limits lists, can_perform_action denies.       *)
(***************************************************************************)
\* the action that creates an entity of a count dimension
CreatingAction ==
    [interns |-> "create_intern", cases |-> "create_case",
     resources |-> "upload_resource",
     custom_competencies |-> "create_custom_competency"]

\* can_perform_action denies the action for the account, as the record store
\* stands (an upload is asked about without a file size)
DeniesNow(user_id, action) ==
    ~can_perform_action(db, user_id, action, 0, TRUE).value[1]

\* validate_tier_limits lists the dimension for the account, as the record
\* store stands
ListsNow(user_id, n) ==
    n \in Members(validate_tier_limits(db, user_id, TRUE).value
                      .exceeded_limits)

\* C30: when validate_tier_limits lists interns, cases, resources or
\* custom_competencies in exceeded_limits, can_perform_action denies the
\* action that creates an entity of that dimension for the same account and
\* record store; and an action of these that can_perform_action allows is of
\* a dimension validate_tier_limits does not list.
C30_ListedImpliesDenied ==
    /\ ValidateReturned =>
          \A n \in DOMAIN CreatingAction :
              n \in Members(svc.out.value.exceeded_limits)
                  => DeniesNow(svc.user_id, CreatingAction[n])
    /\ (svc.op = "can_perform_action" /\ svc.out.kind = "return"
            /\ svc.user_id \in DOMAIN db.users /\ svc.out.value[1]) =>
          \A n \in DOMAIN CreatingAction :
              svc.action = CreatingAction[n] => ~ListsNow(svc.user_id, n)

\* validate_tier_limits lists cases (created in the last 30 days) and
\* create_case is denied; the same account holds interns up to the limit,
\* all older than 30 days: create_intern is denied although interns is not
\* listed, so the converse does not hold
C30_Witness ==
    /\ ValidateReturned
    /\ "cases" \in Members(svc.out.value.exceeded_limits)
    /\ DeniesNow(svc.user_id, "create_case")
    /\ "interns" \notin Members(svc.out.value.exceeded_limits)
    /\ DeniesNow(svc.user_id, "create_intern")
    /\ db.owned[svc.user_id].interns_recent = 0

(***************************************************************************)
(* C28.  Every rate-limit bucket expires.                                  *)
(***************************************************************************)
\* the moments the clock of a behaviour may show when a worker builds a key
ClockGrid ==
    {s + k * TickStep : s \in StartTimes, k \in 0..(MaxElapsed \div TickStep)}

\* the bucket keys the workers may create
BucketKeys ==
    {WindowKey("u1", p, t) : p \in PeriodSet, t \in ClockGrid}

\* C28: every rate-limit bucket that is in the counter store eventually is
\* not: it expires without an explicit delete, also when the EXPIRE call
\* that follows the bucket's first INCR fails.
C28_EveryBucketExpires ==
    \A key \in BucketKeys :
        (key \in DOMAIN redis) ~> (key \notin DOMAIN redis)

\* what the code keeps of C28: a bucket that carries a time to live
\* eventually leaves the store
C28_VolatileBucketExpires ==
    \A key \in BucketKeys :
        (key \in DOMAIN redis /\ redis[key].volatile)
            ~> (key \notin DOMAIN redis)

\* the bucket is in the store without a time to live and no worker is about
\* to send EXPIRE for it
Leaked(key) ==
    /\ key \in DOMAIN redis
    /\ ~redis[key].volatile
    /\ \A w \in Workers :
          ~(procs[w].pc = "expire" /\ procs[w].window_key = key)

\* a bucket whose EXPIRE failed is leaked, every worker is idle or has
\* returned, and the bucket's window is over
C28_LeakedBucket ==
    \E key \in DOMAIN redis :
        /\ Leaked(key)
        /\ \A w \in Workers : procs[w].pc \in {"idle", "done"}
        /\ now >= key[3] + WindowTTL(key[2])

\* a leaked bucket stays leaked whatever the workers and the clock do next:
\* every later INCR of it returns more than 1, so no EXPIRE follows
C28_LeakIsPermanent ==
    [][\A key \in BucketKeys : Leaked(key) => Leaked(key)']_vars

=============================================================================
